---- MODULE Spec2Model ----
(***************************************************************************)
(* Model of the OpenSSH private-key container codec of ProSSHMac and of    *)
(* the key pipeline built on it: generate, import, convert                 *)
(* (src/ProSSHMac/CLibSSH/ProSSHLibSSHWrapper.c).                          *)
(*                                                                         *)
(* Bytes and characters are integers 0..255 (characters by ASCII code);    *)
(* buffers and C strings are sequences of them.  A NULL pointer is the     *)
(* one-element sequence NULL, which is no valid byte string.               *)
(***************************************************************************)
EXTENDS Integers, Sequences, FiniteSets, TLC

VARIABLES
    phase,      \* "idle" between calls, otherwise the name of the call that just returned
    call,       \* the arguments of that call
    exp,        \* what prossh_export_openssh_private_key returned and built
    keytext,    \* the armored key text the caller currently holds
    det,        \* what the detector returned for keytext
    dec,        \* what decoding keytext gave: the passphrase tried and the key recovered
    req,        \* the arguments of the pipeline call that just returned
    res,        \* the outputs of that pipeline call
    drawn,      \* how many values the random source has handed out
    before,     \* the previous encoder call and its result, as the caller kept them
    handle,     \* the ProSSHLibSSHHandle the caller holds: its session and channel
    heap,       \* every libssh session and channel allocated so far
    forwards,   \* the channels of the ProSSHForwardChannel structs the caller holds
    op          \* the connection call that just returned, or the one still running

vars == <<phase, call, exp, keytext, det, dec, req, res, drawn, before, handle, heap, forwards, op>>

----------------------------------------------------------------------------
(* Bounds of the model *)

MaxKey == 2
MaxCommentLen == 2
MaxSeed == 1

----------------------------------------------------------------------------
(* C values *)

NULL == <<-1>>

\* the NULL ssh_key
NullKey == [priv |-> NULL, pub |-> NULL]

PROSSH_PRIVATE_KEY_OPENSSH == 0
PROSSH_PRIVATE_KEY_PEM == 1
PROSSH_PRIVATE_KEY_PKCS8 == 2

PROSSH_PRIVATE_KEY_CIPHER_NONE == 0
PROSSH_PRIVATE_KEY_CIPHER_AES256CTR == 1
PROSSH_PRIVATE_KEY_CIPHER_CHACHA20_POLY1305 == 2

\* "openssh-key-v1" with its terminating NUL: sizeof(auth_magic) bytes
auth_magic == <<111,112,101,110,115,115,104,45,107,101,121,45,118,49,0>>

NameNone == <<110,111,110,101>>
NameAes == <<97,101,115,50,53,54,45,99,116,114>>
NameChacha == <<99,104,97,99,104,97,50,48,45,112,111,108,121,49,51,48,53,64,111,112,101,110,115,115,104,46,99,111,109>>
KdfNone == <<110,111,110,101>>
KdfBcrypt == <<98,99,114,121,112,116>>

BeginMarker == <<45,45,45,45,45,66,69,71,73,78,32,79,80,69,78,83,83,72,32,80,82,73,86,65,84,69,32,75,69,89,45,45,45,45,45>>
EndMarker == <<45,45,45,45,45,69,78,68,32,79,80,69,78,83,83,72,32,80,82,73,86,65,84,69,32,75,69,89,45,45,45,45,45>>
NL == 10

PROSSH_OPENSSH_CIPHER_NONE ==
    [name |-> NameNone, block_size |-> 8, key_length |-> 0, iv_length |-> 0, auth_length |-> 0]

PROSSH_OPENSSH_CIPHER_AES256CTR ==
    [name |-> NameAes, block_size |-> 16, key_length |-> 32, iv_length |-> 16, auth_length |-> 0]

PROSSH_OPENSSH_CIPHER_CHACHA20 ==
    [name |-> NameChacha, block_size |-> 8, key_length |-> 64, iv_length |-> 0, auth_length |-> 16]

SaltLen == 16
bcrypt_rounds == 16
line_width == 70

----------------------------------------------------------------------------
(* Byte-level helpers *)

RECURSIVE SumSeq(_)
SumSeq(s) == IF s = <<>> THEN 0 ELSE s[1] + SumSeq(Tail(s))

Zeros(n) == [i \in 1..n |-> 0]

AllZero(s) == \A i \in 1..Len(s) : s[i] = 0

\* the four bytes prossh_buffer_add_u32 appends for a 32-bit value
U32BE(value) ==
    << (value \div 16777216) % 256, (value \div 65536) % 256,
       (value \div 256) % 256, value % 256 >>

\* 32-bit values are kept below 2^31 (the checker's integers are 32-bit signed);
\* every length of the model is far below that, so the uint32_t casts change nothing
prossh_buffer_add_u32(buffer, value) == buffer \o U32BE(value)

prossh_buffer_add_string_m(buffer, data) == buffer \o data

prossh_buffer_add_string(buffer, data) ==
    prossh_buffer_add_u32(buffer, Len(data)) \o data

\* a value of 2^31 or more is read as 2^31 - 1: it is only ever compared with
\* buffer lengths, all of which are smaller
prossh_read_u32_be(data, at) ==
    IF data[at] >= 128 THEN 2147483647
    ELSE data[at] * 16777216 + data[at + 1] * 65536 + data[at + 2] * 256 + data[at + 3]

prossh_secure_clear(buffer) == Zeros(Len(buffer))

----------------------------------------------------------------------------
(* Base64: EVP_EncodeBlock as called by prossh_base64_encode *)

B64Char(v) ==
    IF v < 26 THEN 65 + v
    ELSE IF v < 52 THEN 97 + (v - 26)
    ELSE IF v < 62 THEN 48 + (v - 52)
    ELSE IF v = 62 THEN 43 ELSE 47

prossh_base64_encode(input) ==
    LET n == Len(input)
        byteAt(i) == IF i <= n THEN input[i] ELSE 0
    IN  [k \in 1..(4 * ((n + 2) \div 3)) |->
            LET g == (k - 1) \div 4
                j == (k - 1) % 4
                r == n - 3 * g
                v == byteAt(3 * g + 1) * 65536 + byteAt(3 * g + 2) * 256 + byteAt(3 * g + 3)
                sextet == CASE j = 0 -> v \div 262144
                            [] j = 1 -> (v \div 4096) % 64
                            [] j = 2 -> (v \div 64) % 64
                            [] OTHER -> v % 64
            IN  IF j > r THEN 61 ELSE B64Char(sextet)]

----------------------------------------------------------------------------
(* Cipher and KDF engine.  The primitives themselves (bcrypt, AES, ChaCha20,*)
(* Poly1305) live in libssh/OpenSSL; they are modelled as deterministic     *)
(* keyed byte-wise transformations with the lengths and key/IV wiring of    *)
(* the calling code.                                                        *)

bcrypt_pbkdf(pass, salt, keylen) ==
    [i \in 1..keylen |->
        (((31 * SumSeq(pass) + 7 * SumSeq(salt) + 5) % 256) * (i + 1) + 13 * i) % 256]

\* keystream byte i of a stream cipher keyed by key (32 bytes) and a 16-byte iv/counter block
KeyStream(key, iv, i) ==
    (key[((i - 1) % 32) + 1] + 3 * iv[((i - 1) % 16) + 1] + 11 * i) % 256

prossh_encrypt_aes256_ctr(plaintext, key, iv) ==
    [i \in 1..Len(plaintext) |-> (plaintext[i] + KeyStream(key, iv, i)) % 256]

prossh_poly1305_tag(key, data) ==
    [j \in 1..16 |-> (SumSeq(data) + key[j] + 5 * key[j + 16] + j) % 256]

prossh_encrypt_chacha20_poly1305_openssh_m(plaintext, key_material) ==
    LET key == SubSeq(key_material, 1, 32)
        seq1 == [i \in 1..16 |-> IF i = 1 THEN 1 ELSE 0]
    IN  [i \in 1..Len(plaintext) |-> (plaintext[i] + KeyStream(key, seq1, i)) % 256]

prossh_encrypt_chacha20_poly1305_openssh(plaintext, key_material) ==
    LET key == SubSeq(key_material, 1, 32)
        seq0 == Zeros(16)
        seq1 == [i \in 1..16 |-> IF i = 1 THEN 1 ELSE 0]
        poly_key == [i \in 1..32 |-> KeyStream(key, seq0, i)]
        encrypted == [i \in 1..Len(plaintext) |-> (plaintext[i] + KeyStream(key, seq1, i)) % 256]
    IN  encrypted \o prossh_poly1305_tag(poly_key, encrypted)

----------------------------------------------------------------------------
(* Container codec: prossh_export_openssh_private_key *)

\* lines 1060-1073: the cipher the encoder selects
SelectCipher_m(passphrase, requested_cipher) ==
    IF passphrase # NULL /\ passphrase # <<>>
    THEN IF requested_cipher = PROSSH_PRIVATE_KEY_CIPHER_CHACHA20_POLY1305
         THEN PROSSH_OPENSSH_CIPHER_CHACHA20
         ELSE IF requested_cipher = PROSSH_PRIVATE_KEY_CIPHER_AES256CTR
              THEN PROSSH_OPENSSH_CIPHER_AES256CTR
              ELSE PROSSH_OPENSSH_CIPHER_CHACHA20
    ELSE PROSSH_OPENSSH_CIPHER_NONE

SelectCipher(passphrase, requested_cipher) ==
    IF passphrase # NULL /\ passphrase # <<>>
    THEN IF requested_cipher = PROSSH_PRIVATE_KEY_CIPHER_CHACHA20_POLY1305
         THEN PROSSH_OPENSSH_CIPHER_CHACHA20
         ELSE PROSSH_OPENSSH_CIPHER_AES256CTR
    ELSE PROSSH_OPENSSH_CIPHER_NONE

\* lines 1121-1131: append 1, 2, 3, ... until the length is a multiple of block_size
RECURSIVE PadLoop(_, _, _)
PadLoop(private_section, padding_byte, block_size) ==
    IF (Len(private_section) % block_size) # 0
    THEN PadLoop(Append(private_section, padding_byte), (padding_byte + 1) % 256, block_size)
    ELSE private_section

PadPrivateSection_m(private_section, block_size) == PadLoop(private_section, 1, 8)

PadPrivateSection(private_section, block_size) == PadLoop(private_section, 1, block_size)

\* a private section whose two checkints differ
PrivateSectionBody_m(private_key_blob, comment, checkint) ==
    LET safe_comment == IF comment # NULL THEN comment ELSE <<>>
    IN  prossh_buffer_add_string(
            prossh_buffer_add_string(
                prossh_buffer_add_u32(prossh_buffer_add_u32(<<>>, checkint),
                                      checkint + 1),
                private_key_blob),
            safe_comment)

\* lines 1096-1119: checkint twice, the private-key blob, the comment
PrivateSectionBody(private_key_blob, comment, checkint) ==
    LET safe_comment == IF comment # NULL THEN comment ELSE <<>>
    IN  prossh_buffer_add_string(
            prossh_buffer_add_string(
                prossh_buffer_add_u32(prossh_buffer_add_u32(<<>>, checkint), checkint),
                private_key_blob),
            safe_comment)

\* lines 1177-1196: the cipher call with the key material wired as the code wires it
EncryptPrivate_m(cipher, plain_private, key_material) ==
    IF cipher.name = NameAes
    THEN prossh_encrypt_aes256_ctr(
             plain_private,
             SubSeq(key_material, 1, 32),
             SubSeq(key_material, 1, cipher.iv_length))
    ELSE prossh_encrypt_chacha20_poly1305_openssh(plain_private, SubSeq(key_material, 33, 64))

EncryptPrivate(cipher, plain_private, key_material) ==
    IF cipher.name = NameAes
    THEN prossh_encrypt_aes256_ctr(
             plain_private,
             SubSeq(key_material, 1, 32),
             SubSeq(key_material, cipher.key_length + 1, cipher.key_length + cipher.iv_length))
    ELSE prossh_encrypt_chacha20_poly1305_openssh(plain_private, key_material)

\* lines 1246-1259
KdfOptions(encrypt_private_key, salt) ==
    IF encrypt_private_key
    THEN prossh_buffer_add_u32(prossh_buffer_add_string(<<>>, salt), bcrypt_rounds)
    ELSE <<>>

\* lines 1261-1271
EncodeContainer_m(cipher, kdf_name, kdf_options, public_key_blob, clear_private_len, encrypted_private) ==
    prossh_buffer_add_u32(
        prossh_buffer_add_string(
            prossh_buffer_add_u32(
                prossh_buffer_add_string(
                    prossh_buffer_add_string(
                        prossh_buffer_add_string(auth_magic, cipher.name),
                        KdfBcrypt),
                    kdf_options),
                1),
            public_key_blob),
        clear_private_len) \o encrypted_private

EncodeContainer(cipher, kdf_name, kdf_options, public_key_blob, clear_private_len, encrypted_private) ==
    prossh_buffer_add_u32(
        prossh_buffer_add_string(
            prossh_buffer_add_u32(
                prossh_buffer_add_string(
                    prossh_buffer_add_string(
                        prossh_buffer_add_string(auth_magic, cipher.name),
                        kdf_name),
                    kdf_options),
                1),
            public_key_blob),
        clear_private_len) \o encrypted_private

\* the base64 body on one line
WrapLines_m(base64_data, offset) == SubSeq(base64_data, offset + 1, Len(base64_data)) \o <<NL>>

\* lines 1334-1345: the base64 body in lines of at most line_width characters
RECURSIVE WrapLines(_, _)
WrapLines(base64_data, offset) ==
    IF offset < Len(base64_data)
    THEN LET rest == Len(base64_data) - offset
             chunk == IF rest > line_width THEN line_width ELSE rest
         IN  SubSeq(base64_data, offset + 1, offset + chunk) \o <<NL>>
                 \o WrapLines(base64_data, offset + chunk)
    ELSE <<>>

\* lines 1304-1353
FormatOutput(base64_data) ==
    BeginMarker \o <<NL>>
        \o (IF Len(base64_data) = 0 THEN <<NL>> ELSE WrapLines(base64_data, 0))
        \o EndMarker \o <<NL>>

\* a buffer handed back to the allocator, with the bytes it held at that moment
Freed(buf, bytes) == [buf |-> buf, bytes |-> bytes]

NoExport ==
    [rc |-> 0, output |-> NULL, encrypt |-> FALSE, cipher |-> PROSSH_OPENSSH_CIPHER_NONE,
     clear_private |-> <<>>, clear_private_len |-> 0, encrypted_private |-> <<>>,
     key_material |-> <<>>, kdf_name |-> <<>>, kdf_options |-> <<>>, encoded |-> <<>>,
     freed |-> {}]

\* an error return: the output pointer still holds the NULL of line 1058
ExportFail_m(rc, cipher, freed, clear_private_len) ==
    [NoExport EXCEPT !.rc = rc, !.cipher = cipher, !.freed = freed,
                     !.clear_private_len = clear_private_len,
                     !.output = IF rc <= -17 THEN BeginMarker \o <<NL>> ELSE NULL]

ExportFail(rc, cipher, freed, clear_private_len) ==
    [NoExport EXCEPT !.rc = rc, !.cipher = cipher, !.freed = freed,
                     !.clear_private_len = clear_private_len]

\* The whole function.  private_key is NullKey or [priv |-> blob, pub |-> blob];
\* output_ptr tells whether private_key_output is non-NULL; checkint and salt are
\* what ssh_get_random delivers; fail names the return (2..18) whose guarding
\* library call or allocation fails in this run, 0 when none does.
prossh_export_openssh_private_key(private_key, passphrase, requested_cipher, comment, output_ptr, checkint, salt, fail) ==
    LET encrypt_private_key == passphrase # NULL /\ passphrase # <<>>
        cipher == SelectCipher(passphrase, requested_cipher)
        blobF == Freed("private_key_blob", private_key.priv)
        body == PrivateSectionBody(private_key.priv, comment, checkint)
        padded == PadPrivateSection(body, cipher.block_size)
        clear_private_len == Len(padded)
        secF == Freed("private_section", padded)
        key_material_len == cipher.key_length + cipher.iv_length
        key_material == bcrypt_pbkdf(passphrase, salt, key_material_len)
        encrypted_private ==
            IF encrypt_private_key THEN EncryptPrivate(cipher, padded, key_material) ELSE padded
        kmF == IF encrypt_private_key THEN {Freed("key_material", key_material)} ELSE {}
        allF == {Freed("encrypted_private", encrypted_private), secF, blobF} \cup kmF
        kdf_name == IF encrypt_private_key THEN KdfBcrypt ELSE KdfNone
        kdf_options == KdfOptions(encrypt_private_key, salt)
        encoded == EncodeContainer(cipher, kdf_name, kdf_options, private_key.pub,
                                   clear_private_len, encrypted_private)
        base64_data == prossh_base64_encode(encoded)
    IN  IF private_key = NullKey \/ ~output_ptr THEN ExportFail(-1, PROSSH_OPENSSH_CIPHER_NONE, {}, 0)
        ELSE IF fail = 2 THEN ExportFail(-2, cipher, {}, 0)
        ELSE IF fail = 3 THEN ExportFail(-3, cipher, {}, 0)
        ELSE IF fail = 4 THEN ExportFail(-4, cipher, {blobF}, 0)
        ELSE IF fail = 5 THEN ExportFail(-5, cipher, {Freed("private_section", <<>>), blobF}, 0)
        ELSE IF fail = 6 THEN ExportFail(-6, cipher, {Freed("private_section", <<>>), blobF}, 0)
        ELSE IF fail = 7 /\ Len(body) % cipher.block_size # 0
             THEN ExportFail(-7, cipher, {Freed("private_section", body), blobF}, 0)
        ELSE IF encrypt_private_key /\ fail = 8 THEN ExportFail(-8, cipher, {secF, blobF}, clear_private_len)
        ELSE IF encrypt_private_key /\ fail = 9
             THEN ExportFail(-9, cipher, {Freed("key_material", Zeros(key_material_len)), secF, blobF}, clear_private_len)
        ELSE IF encrypt_private_key /\ fail = 10
             THEN ExportFail(-10, cipher, {Freed("key_material", Zeros(key_material_len)), secF, blobF}, clear_private_len)
        ELSE IF encrypt_private_key /\ fail = 11
             THEN ExportFail(-11, cipher, {Freed("key_material", key_material), secF, blobF}, clear_private_len)
        ELSE IF ~encrypt_private_key /\ fail = 12 THEN ExportFail(-12, cipher, {secF, blobF}, clear_private_len)
        ELSE IF fail \in 13..18 /\ (fail # 15 \/ encrypt_private_key)
             THEN ExportFail(-fail, cipher, allF, clear_private_len)
        ELSE [rc |-> 0, output |-> FormatOutput(base64_data),
              encrypt |-> encrypt_private_key, cipher |-> cipher,
              clear_private |-> padded, clear_private_len |-> clear_private_len,
              encrypted_private |-> encrypted_private,
              key_material |-> IF encrypt_private_key THEN key_material ELSE <<>>,
              kdf_name |-> kdf_name, kdf_options |-> kdf_options, encoded |-> encoded,
              freed |-> allF]

----------------------------------------------------------------------------
(* Format and cipher detector *)

StrBeginOpenssh == <<66,69,71,73,78,32,79,80,69,78,83,83,72,32,80,82,73,86,65,84,69,32,75,69,89>>
StrBeginPrivate == <<66,69,71,73,78,32,80,82,73,86,65,84,69,32,75,69,89>>
StrBeginEncrypted == <<66,69,71,73,78,32,69,78,67,82,89,80,84,69,68,32,80,82,73,86,65,84,69,32,75,69,89>>
StrProcType == <<80,114,111,99,45,84,121,112,101,58,32,52,44,69,78,67,82,89,80,84,69,68>>
StrDekInfo == <<68,69,75,45,73,110,102,111,58>>
StrAes256Ctr == <<65,69,83,45,50,53,54,45,67,84,82>>
StrChaCha20 == <<67,104,97,67,104,97,50,48>>

\* strstr: the index of the first occurrence of pattern in text, 0 when there is none
strstr(text, pattern) ==
    LET m == Len(pattern)
        hits == {i \in 1..(Len(text) - m + 1) :
                    text[i] = pattern[1] /\ SubSeq(text, i, i + m - 1) = pattern}
    IN  IF hits = {} THEN 0 ELSE CHOOSE i \in hits : \A j \in hits : i <= j

\* a C string ends at its first NUL byte
CStr(bytes) ==
    LET nul == {i \in 1..Len(bytes) : bytes[i] = 0}
    IN  IF nul = {} THEN bytes
        ELSE SubSeq(bytes, 1, (CHOOSE i \in nul : \A j \in nul : i <= j) - 1)

IsSpace(c) == c \in {13, 10, 32, 9}

IsBase64Char(c) ==
    \/ (c >= 65 /\ c <= 90)
    \/ (c >= 97 /\ c <= 122)
    \/ (c >= 48 /\ c <= 57)
    \/ c \in {43, 47, 61}

\* the 6-bit value EVP_DecodeBlock gives a base64 character; '=' decodes as 0
B64Value(c) ==
    IF c >= 65 /\ c <= 90 THEN c - 65
    ELSE IF c >= 97 /\ c <= 122 THEN c - 97 + 26
    ELSE IF c >= 48 /\ c <= 57 THEN c - 48 + 52
    ELSE IF c = 43 THEN 62
    ELSE IF c = 47 THEN 63 ELSE 0

\* EVP_DecodeBlock: <<-1>> for an input whose length is no multiple of 4,
\* otherwise three bytes for every four characters
EVP_DecodeBlock(chars) ==
    IF Len(chars) % 4 # 0 THEN NULL
    ELSE [k \in 1..(3 * (Len(chars) \div 4)) |->
            LET g == (k - 1) \div 3
                j == (k - 1) % 3
                a == B64Value(chars[4 * g + 1])
                b == B64Value(chars[4 * g + 2])
                c == B64Value(chars[4 * g + 3])
                d == B64Value(chars[4 * g + 4])
            IN  CASE j = 0 -> (a * 4 + b \div 16) % 256
                  [] j = 1 -> ((b % 16) * 16 + c \div 4) % 256
                  [] OTHER -> ((c % 4) * 64 + d) % 256]

RECURSIVE SkipSpace(_, _)
SkipSpace(text, at) ==
    IF at <= Len(text) /\ IsSpace(text[at]) THEN SkipSpace(text, at + 1) ELSE at

\* sizeof(auth_magic): the 14 characters and the terminating NUL
auth_magic_length_m == Len(auth_magic) - 1

auth_magic_length == Len(auth_magic)

cipher_buffer_len == 64

\* prossh_parse_openssh_ciphername: [rc, cipher]; cipher is the C string left in
\* cipher_buffer.  The two allocations of the function are taken to succeed.
prossh_parse_openssh_ciphername(private_key_text) ==
    LET Result(rc, cipher) == [rc |-> rc, cipher |-> cipher]
        begin == strstr(private_key_text, BeginMarker)
        end == strstr(private_key_text, EndMarker)
        from == SkipSpace(private_key_text, begin + Len(BeginMarker))
        base64_clean == SelectSeq(SubSeq(private_key_text, from, end - 1), IsBase64Char)
        base64_length == Len(base64_clean)
        padding == (IF base64_length >= 1 /\ base64_clean[base64_length] = 61 THEN 1 ELSE 0)
                 + (IF base64_length >= 2 /\ base64_clean[base64_length - 1] = 61 THEN 1 ELSE 0)
        decoded == EVP_DecodeBlock(base64_clean)
        decoded_length == Len(decoded) - padding
        offset == auth_magic_length
        cipher_length == prossh_read_u32_be(decoded, offset + 1)
        copy_length == IF cipher_length >= cipher_buffer_len
                       THEN cipher_buffer_len - 1 ELSE cipher_length
    IN  IF private_key_text = NULL THEN Result(-1, <<>>)
        ELSE IF begin = 0 \/ end = 0 \/ end <= begin THEN Result(-2, <<>>)
        ELSE IF base64_length = 0 THEN Result(-4, <<>>)
        ELSE IF decoded = NULL \/ Len(decoded) <= 0 THEN Result(-6, <<>>)
        ELSE IF decoded_length < auth_magic_length + 4
                \/ SubSeq(decoded, 1, auth_magic_length) # SubSeq(auth_magic, 1, auth_magic_length)
             THEN Result(-7, <<>>)
        ELSE IF offset + 4 + cipher_length > decoded_length \/ cipher_length = 0
             THEN Result(-9, <<>>)
        ELSE Result(0, CStr(SubSeq(decoded, offset + 5, offset + 4 + copy_length)))

prossh_detect_private_key_format_m(private_key_text) ==
    IF private_key_text = NULL THEN PROSSH_PRIVATE_KEY_OPENSSH
    ELSE IF strstr(private_key_text, StrBeginPrivate) # 0 THEN PROSSH_PRIVATE_KEY_PKCS8
    ELSE IF strstr(private_key_text, StrBeginOpenssh) # 0 THEN PROSSH_PRIVATE_KEY_OPENSSH
    ELSE PROSSH_PRIVATE_KEY_PEM

prossh_detect_private_key_format(private_key_text) ==
    IF private_key_text = NULL THEN PROSSH_PRIVATE_KEY_OPENSSH
    ELSE IF strstr(private_key_text, StrBeginOpenssh) # 0 THEN PROSSH_PRIVATE_KEY_OPENSSH
    ELSE IF strstr(private_key_text, StrBeginPrivate) # 0
            \/ strstr(private_key_text, StrBeginEncrypted) # 0
         THEN PROSSH_PRIVATE_KEY_PKCS8
    ELSE PROSSH_PRIVATE_KEY_PEM

prossh_detect_private_key_cipher_m(format, private_key_text) ==
    LET Result(cipher, protected, parse_rc) ==
            [ran |-> TRUE, cipher |-> cipher, is_passphrase_protected |-> protected,
             parse_rc |-> parse_rc]
        marked == \/ strstr(private_key_text, StrBeginEncrypted) # 0
                  \/ strstr(private_key_text, StrProcType) # 0
                  \/ strstr(private_key_text, StrDekInfo) # 0
        \* parsed is what prossh_parse_openssh_ciphername returned, rc 1 when it was not called
        Parsed(parsed) ==
            IF parsed.rc = 0
            THEN IF parsed.cipher # NameNone
                 THEN IF parsed.cipher = NameAes
                      THEN Result(PROSSH_PRIVATE_KEY_CIPHER_AES256CTR, TRUE, 0)
                      ELSE IF parsed.cipher = NameChacha
                           THEN Result(PROSSH_PRIVATE_KEY_CIPHER_CHACHA20_POLY1305, TRUE, 0)
                           ELSE Result(PROSSH_PRIVATE_KEY_CIPHER_NONE, FALSE, 0)
                 ELSE Result(PROSSH_PRIVATE_KEY_CIPHER_NONE, FALSE, 0)
            ELSE IF marked
                 THEN IF strstr(private_key_text, StrAes256Ctr) # 0
                      THEN Result(PROSSH_PRIVATE_KEY_CIPHER_AES256CTR, TRUE, parsed.rc)
                      ELSE IF strstr(private_key_text, StrChaCha20) # 0
                           THEN Result(PROSSH_PRIVATE_KEY_CIPHER_CHACHA20_POLY1305, TRUE, parsed.rc)
                           ELSE Result(PROSSH_PRIVATE_KEY_CIPHER_NONE, TRUE, parsed.rc)
            ELSE Result(PROSSH_PRIVATE_KEY_CIPHER_NONE, FALSE, parsed.rc)
    IN  IF private_key_text = NULL THEN Result(PROSSH_PRIVATE_KEY_CIPHER_NONE, FALSE, 1)
        ELSE IF format = PROSSH_PRIVATE_KEY_OPENSSH
             THEN Parsed(prossh_parse_openssh_ciphername(private_key_text))
             ELSE Parsed([rc |-> 1, cipher |-> <<>>])

\* prossh_detect_private_key_cipher: the returned cipher and *is_passphrase_protected.
\* The function has no other result: it cannot report a failure.
prossh_detect_private_key_cipher(format, private_key_text) ==
    LET Result(cipher, protected, parse_rc) ==
            [ran |-> TRUE, cipher |-> cipher, is_passphrase_protected |-> protected,
             parse_rc |-> parse_rc]
        marked == \/ strstr(private_key_text, StrBeginEncrypted) # 0
                  \/ strstr(private_key_text, StrProcType) # 0
                  \/ strstr(private_key_text, StrDekInfo) # 0
        \* parsed is what prossh_parse_openssh_ciphername returned, rc 1 when it was not called
        Parsed(parsed) ==
            IF parsed.rc = 0
            THEN IF parsed.cipher # NameNone
                 THEN IF parsed.cipher = NameAes
                      THEN Result(PROSSH_PRIVATE_KEY_CIPHER_AES256CTR, TRUE, 0)
                      ELSE IF parsed.cipher = NameChacha
                           THEN Result(PROSSH_PRIVATE_KEY_CIPHER_CHACHA20_POLY1305, TRUE, 0)
                           ELSE Result(PROSSH_PRIVATE_KEY_CIPHER_NONE, TRUE, 0)
                 ELSE Result(PROSSH_PRIVATE_KEY_CIPHER_NONE, FALSE, 0)
            ELSE IF marked
                 THEN IF strstr(private_key_text, StrAes256Ctr) # 0
                      THEN Result(PROSSH_PRIVATE_KEY_CIPHER_AES256CTR, TRUE, parsed.rc)
                      ELSE IF strstr(private_key_text, StrChaCha20) # 0
                           THEN Result(PROSSH_PRIVATE_KEY_CIPHER_CHACHA20_POLY1305, TRUE, parsed.rc)
                           ELSE Result(PROSSH_PRIVATE_KEY_CIPHER_NONE, TRUE, parsed.rc)
            ELSE Result(PROSSH_PRIVATE_KEY_CIPHER_NONE, FALSE, parsed.rc)
    IN  IF private_key_text = NULL THEN Result(PROSSH_PRIVATE_KEY_CIPHER_NONE, FALSE, 1)
        ELSE IF format = PROSSH_PRIVATE_KEY_OPENSSH
             THEN Parsed(prossh_parse_openssh_ciphername(private_key_text))
             ELSE Parsed([rc |-> 1, cipher |-> <<>>])

----------------------------------------------------------------------------
(* Malformed input: armored text whose decoded payload is damaged *)

CorruptKinds == {"magic_altered", "magic_absent", "zero_length", "overrun", "truncated"}

CorruptPayload(encoded, kind) ==
    LET m == Len(auth_magic)
    IN  CASE kind = "magic_altered" ->
                [encoded EXCEPT ![1] = (encoded[1] + 1) % 256]
          [] kind = "magic_absent" ->
                SubSeq(encoded, m + 1, Len(encoded))
          [] kind = "zero_length" ->
                [i \in 1..Len(encoded) |-> IF i \in (m + 1)..(m + 4) THEN 0 ELSE encoded[i]]
          [] kind = "overrun" ->
                [i \in 1..Len(encoded) |-> IF i = m + 2 THEN 1 ELSE encoded[i]]
          [] kind = "truncated" ->
                SubSeq(encoded, 1, m + 2)
          [] OTHER -> encoded

CorruptText(encoded, kind) == FormatOutput(prossh_base64_encode(CorruptPayload(encoded, kind)))

----------------------------------------------------------------------------
(* Reading a container back, field by field (the layout of the format:      *)
(* magic, string ciphername, string kdfname, string kdfoptions, uint32      *)
(* number of keys, string public key, uint32 length, private section)       *)

StringAt(data, at) == SubSeq(data, at + 4, at + 3 + prossh_read_u32_be(data, at))

AfterString(data, at) == at + 4 + prossh_read_u32_be(data, at)

ContainerFields(data) ==
    LET c == Len(auth_magic) + 1
        k == AfterString(data, c)
        o == AfterString(data, k)
        n == AfterString(data, o)
        p == n + 4
        l == AfterString(data, p)
    IN  [magic |-> SubSeq(data, 1, Len(auth_magic)),
         ciphername |-> StringAt(data, c),
         kdfname |-> StringAt(data, k),
         kdfoptions |-> StringAt(data, o),
         nkeys |-> prossh_read_u32_be(data, n),
         public_key |-> StringAt(data, p),
         private_len |-> prossh_read_u32_be(data, l),
         private_bytes |-> SubSeq(data, l + 4, Len(data))]

----------------------------------------------------------------------------
(* The PKI primitive of libssh, as far as the pipeline consumes it: the public  *)
(* key of a private key, its SHA-256 fingerprint, and the decoder of a private  *)
(* key container (the mirror image of the encoder).                             *)

\* ssh_pki_export_privkey_to_pubkey / ssh_pki_export_pubkey_blob: the public blob
\* is a function of the private key
PubOf(priv) == [i \in 1..((Len(priv) % 3) + 2) |-> (3 * priv[i] + 1) % 256]

\* ssh_get_publickey_hash(SSH_PUBLICKEY_HASH_SHA256) and ssh_get_fingerprint_hash
Fingerprint(pub) ==
    <<83, 72, 65, 50, 53, 54, 58>> \o
    [j \in 1..4 |-> B64Char((SumSeq(pub) * (j + 1) + 7 * Len(pub) + pub[1] * j) % 64)]

\* the bytes of an armored body, as a base64 reader takes them
ArmorPayload(text, begin_marker, end_marker) ==
    LET begin == strstr(text, begin_marker)
        end == strstr(text, end_marker)
        chars == SelectSeq(SubSeq(text, begin + Len(begin_marker), end - 1), IsBase64Char)
        padding == (IF Len(chars) >= 1 /\ chars[Len(chars)] = 61 THEN 1 ELSE 0)
                 + (IF Len(chars) >= 2 /\ chars[Len(chars) - 1] = 61 THEN 1 ELSE 0)
        decoded == EVP_DecodeBlock(chars)
    IN  IF begin = 0 \/ end = 0 \/ end <= begin \/ Len(chars) = 0 \/ decoded = NULL
        THEN NULL
        ELSE SubSeq(decoded, 1, Len(decoded) - padding)

\* the header of a container is complete: every length-prefixed field lies inside data
WellFormedContainer(data) ==
    LET n == Len(data)
        c == Len(auth_magic) + 1
        fits(at) == /\ at + 3 <= n
                    /\ prossh_read_u32_be(data, at) <= n
                    /\ at + 3 + prossh_read_u32_be(data, at) <= n
    IN  /\ n >= Len(auth_magic)
        /\ SubSeq(data, 1, Len(auth_magic)) = auth_magic
        /\ fits(c)
        /\ fits(AfterString(data, c))
        /\ fits(AfterString(data, AfterString(data, c)))
        /\ LET nk == AfterString(data, AfterString(data, AfterString(data, c)))
           IN  /\ nk + 3 <= n
               /\ fits(nk + 4)
               /\ fits(AfterString(data, nk + 4))

ProfileOf(name) ==
    IF name = NameAes THEN PROSSH_OPENSSH_CIPHER_AES256CTR
    ELSE IF name = NameChacha THEN PROSSH_OPENSSH_CIPHER_CHACHA20
    ELSE PROSSH_OPENSSH_CIPHER_NONE

decrypt_aes256_ctr(ciphertext, key, iv) ==
    [i \in 1..Len(ciphertext) |-> (ciphertext[i] + 256 - KeyStream(key, iv, i)) % 256]

\* <<-1>> when the tag does not authenticate the ciphertext
decrypt_chacha20_poly1305_openssh(data, key_material) ==
    LET key == SubSeq(key_material, 1, 32)
        seq0 == Zeros(16)
        seq1 == [i \in 1..16 |-> IF i = 1 THEN 1 ELSE 0]
        poly_key == [i \in 1..32 |-> KeyStream(key, seq0, i)]
        n == Len(data) - 16
        ciphertext == SubSeq(data, 1, n)
    IN  IF n < 0 \/ SubSeq(data, n + 1, n + 16) # prossh_poly1305_tag(poly_key, ciphertext)
        THEN NULL
        ELSE [i \in 1..n |-> (ciphertext[i] + 256 - KeyStream(key, seq1, i)) % 256]

RECURSIVE IsPadding(_, _)
IsPadding(bytes, k) ==
    bytes = <<>> \/ (bytes[1] = k % 256 /\ IsPadding(Tail(bytes), k + 1))

NoKey == [ok |-> FALSE, priv |-> <<>>, pub |-> <<>>, comment |-> <<>>]

\* the plaintext private section: two equal checkints, the key, the comment, padding
ReadPrivateSection(plain) ==
    LET n == Len(plain)
        kl == prossh_read_u32_be(plain, 9)
        cl == prossh_read_u32_be(plain, 13 + kl)
    IN  IF n < 16 \/ SubSeq(plain, 1, 4) # SubSeq(plain, 5, 8) THEN NoKey
        ELSE IF kl > n \/ 12 + kl + 4 > n THEN NoKey
        ELSE IF cl > n \/ 16 + kl + cl > n THEN NoKey
        ELSE IF ~IsPadding(SubSeq(plain, 17 + kl + cl, n), 1) THEN NoKey
        ELSE [ok |-> TRUE, priv |-> StringAt(plain, 9), pub |-> PubOf(StringAt(plain, 9)),
              comment |-> StringAt(plain, 13 + kl)]

\* decoding an openssh-key-v1 container with an optional passphrase
DecodeOpenSSH(text, passphrase) ==
    LET Decrypted(plain) == IF plain = NULL THEN NoKey ELSE ReadPrivateSection(plain)
        Derived(f, key_material) ==
            IF f.ciphername = NameAes
            THEN Decrypted(decrypt_aes256_ctr(SubSeq(f.private_bytes, 1, f.private_len),
                               SubSeq(key_material, 1, 32), SubSeq(key_material, 33, 48)))
            ELSE Decrypted(decrypt_chacha20_poly1305_openssh(
                               SubSeq(f.private_bytes, 1, f.private_len + 16), key_material))
        Fields(f, profile) ==
            IF f.nkeys # 1 THEN NoKey
            ELSE IF f.private_len > Len(f.private_bytes) THEN NoKey
            ELSE IF f.private_len + profile.auth_length > Len(f.private_bytes) THEN NoKey
            ELSE IF f.private_len % profile.block_size # 0 THEN NoKey
            ELSE IF f.ciphername = NameNone
                 THEN IF f.kdfname = KdfNone
                      THEN ReadPrivateSection(SubSeq(f.private_bytes, 1, f.private_len))
                      ELSE NoKey
            ELSE IF f.ciphername \notin {NameAes, NameChacha} \/ f.kdfname # KdfBcrypt THEN NoKey
            ELSE IF passphrase = NULL \/ passphrase = <<>> THEN NoKey
            ELSE IF Len(f.kdfoptions) # 4 + SaltLen + 4 THEN NoKey
            ELSE Derived(f, bcrypt_pbkdf(passphrase, StringAt(f.kdfoptions, 1),
                                         profile.key_length + profile.iv_length))
        Header(f) == Fields(f, ProfileOf(f.ciphername))
        Payload(data) ==
            IF data = NULL THEN NoKey
            ELSE IF ~WellFormedContainer(data) THEN NoKey
            ELSE Header(ContainerFields(data))
    IN  Payload(ArmorPayload(text, BeginMarker, EndMarker))

----------------------------------------------------------------------------
(* Inputs of the calls *)

\* a signing key: what ssh_pki_export_privkey_blob and ssh_pki_export_pubkey_blob give for it
KeyOf(k) ==
    LET priv == [i \in 1..(10 * k - 4) |-> (40 * k + i) % 256]
    IN  [priv |-> priv, pub |-> PubOf(priv)]

Keys == {KeyOf(k) : k \in 1..MaxKey}

Passphrases == {NULL, <<>>, <<97>>, <<98>>}

RequestedCiphers == 0..3

Comments == {NULL} \cup {[i \in 1..n |-> 99] : n \in 0..MaxCommentLen}

\* the random source: a seed stands for what ssh_get_random delivers during one call,
\* first the 32-bit checkint, then the 16 salt bytes
Seeds == 0..MaxSeed

CheckintOf(seed) == 16909061 * (seed + 1)

SaltOf(seed) == [i \in 1..SaltLen |-> (16 * seed + i) % 256]

FailPoints == {0} \cup (2..18)

----------------------------------------------------------------------------
(* The conversion pipeline: generate, import, convert.                       *)
(* The key types, the unencrypted exporters, the PEM and PKCS#8 readers and  *)
(* writers belong to libssh and OpenSSL; they are modelled by what the       *)
(* wrapper needs of them.                                                    *)

PROSSH_KEY_RSA == 0
PROSSH_KEY_ED25519 == 1
PROSSH_KEY_ECDSA_P256 == 2
PROSSH_KEY_ECDSA_P384 == 3
PROSSH_KEY_ECDSA_P521 == 4
PROSSH_KEY_DSA == 5

TypeRsa == <<115,115,104,45,114,115,97>>
TypeEd25519 == <<115,115,104,45,101,100,50,53,53,49,57>>
TypeUnknownName == <<115,115,104,45,117,110,107,110,111,119,110>>
TypeFoo == <<115,115,104,45,102,111,111>>
ShortRsa == <<114,115,97>>
ShortEd25519 == <<101,100,50,53,53,49,57>>
ShortUnknown == <<117,110,107,110,111,119,110>>
PrefixSsh == <<115,115,104,45>>
PrefixEcdsa == <<101,99,100,115,97,45>>
PrefixSk == <<115,107,45>>
StrPrivateKeyDashes == <<80,82,73,86,65,84,69,32,75,69,89,45,45,45,45,45>>
PemBegin == <<45,45,45,45,45,66,69,71,73,78,32,82,83,65,32,80,82,73,86,65,84,69,32,75,69,89,45,45,45,45,45>>
PemEnd == <<45,45,45,45,45,69,78,68,32,82,83,65,32,80,82,73,86,65,84,69,32,75,69,89,45,45,45,45,45>>
Pkcs8Begin == <<45,45,45,45,45,66,69,71,73,78,32,80,82,73,86,65,84,69,32,75,69,89,45,45,45,45,45>>
Pkcs8End == <<45,45,45,45,45,69,78,68,32,80,82,73,86,65,84,69,32,75,69,89,45,45,45,45,45>>
PemEncHeader == <<80,114,111,99,45,84,121,112,101,58,32,52,44,69,78,67,82,89,80,84,69,68,10,68,69,75,45,73,110,102,111,58,32,65,69,83,45,49,50,56,45,67,66,67,44,48,48,10,10>>
Md5Prefix == <<77,68,53,58>>
Hello == <<104,101,108,108,111>>

\* prossh_copy_string: snprintf(dst, dst_len, "%s", src) keeps dst_len - 1 characters
prossh_copy_string(dst_len, src) ==
    IF src = NULL THEN <<>>
    ELSE IF Len(src) < dst_len THEN src
    ELSE SubSeq(src, 1, dst_len - 1)

IsTrimSpace(c) == c \in {32, 9, 13, 10}

IsBlank(c) == c \in {32, 9}

\* while (*start is white space) start++
RECURSIVE TrimStart(_, _)
TrimStart(text, start) ==
    IF start <= Len(text) /\ IsTrimSpace(text[start]) THEN TrimStart(text, start + 1) ELSE start

\* while (end > start && end[-1] is white space) end--
RECURSIVE TrimEnd(_, _, _)
TrimEnd(text, start, end) ==
    IF end >= start /\ IsTrimSpace(text[end]) THEN TrimEnd(text, start, end - 1) ELSE end

\* prossh_trimmed_copy: the text without leading and trailing white space
prossh_trimmed_copy(text) ==
    IF text = NULL THEN NULL
    ELSE LET start == TrimStart(text, 1)
         IN  SubSeq(text, start, TrimEnd(text, start, Len(text)))

\* strncmp(text, prefix, strlen(prefix)) == 0
strncmp(text, prefix) ==
    Len(text) >= Len(prefix) /\ SubSeq(text, 1, Len(prefix)) = prefix

\* while (*cursor == ' ' || *cursor == '\t') cursor++
RECURSIVE SkipBlank(_, _)
SkipBlank(text, at) ==
    IF at <= Len(text) /\ IsBlank(text[at]) THEN SkipBlank(text, at + 1) ELSE at

\* while (*cursor != '\0' && *cursor is no white space) cursor++
RECURSIVE TokenEnd(_, _)
TokenEnd(text, at) ==
    IF at <= Len(text) /\ ~IsTrimSpace(text[at]) THEN TokenEnd(text, at + 1) ELSE at

\* the comment argument without its leading blanks
NormalizedComment(comment) ==
    IF comment = NULL THEN <<>>
    ELSE SubSeq(comment, SkipBlank(comment, 1), Len(comment))

prossh_map_key_algorithm(algorithm) ==
    CASE algorithm = PROSSH_KEY_RSA -> "SSH_KEYTYPE_RSA"
      [] algorithm = PROSSH_KEY_ED25519 -> "SSH_KEYTYPE_ED25519"
      [] algorithm = PROSSH_KEY_ECDSA_P256 -> "SSH_KEYTYPE_ECDSA_P256"
      [] algorithm = PROSSH_KEY_ECDSA_P384 -> "SSH_KEYTYPE_ECDSA_P384"
      [] algorithm = PROSSH_KEY_ECDSA_P521 -> "SSH_KEYTYPE_ECDSA_P521"
      [] algorithm = PROSSH_KEY_DSA -> "SSH_KEYTYPE_DSS"
      [] OTHER -> "SSH_KEYTYPE_UNKNOWN"

prossh_map_private_key_format(format) ==
    IF format \in {PROSSH_PRIVATE_KEY_PEM, PROSSH_PRIVATE_KEY_PKCS8}
    THEN "SSH_FILE_FORMAT_PEM" ELSE "SSH_FILE_FORMAT_OPENSSH"

\* ssh_key_type: the type of a key is read off its public blob
ssh_key_type(pub) ==
    IF pub = NULL \/ Len(pub) < 2 THEN "SSH_KEYTYPE_UNKNOWN"
    ELSE IF Len(pub) = 2 THEN "SSH_KEYTYPE_ED25519"
    ELSE "SSH_KEYTYPE_RSA"

ssh_key_type_to_char(key_type) ==
    CASE key_type = "SSH_KEYTYPE_RSA" -> TypeRsa
      [] key_type = "SSH_KEYTYPE_ED25519" -> TypeEd25519
      [] OTHER -> <<>>

ssh_key_type_from_name(name) ==
    IF name = TypeRsa THEN "SSH_KEYTYPE_RSA"
    ELSE IF name = TypeEd25519 THEN "SSH_KEYTYPE_ED25519"
    ELSE "SSH_KEYTYPE_UNKNOWN"

\* ssh_key_size: 0 where libssh leaves the size to the caller's table
ssh_key_size(key_type) == IF key_type = "SSH_KEYTYPE_RSA" THEN 2048 ELSE 0

\* ssh_pki_generate_key: the key a successful generation delivers for a key type
ssh_pki_generate_key(key_type) ==
    LET priv == IF key_type = "SSH_KEYTYPE_ED25519"
                THEN [i \in 1..6 |-> (40 + i) % 256]
                ELSE [i \in 1..16 |-> (80 + i) % 256]
    IN  [priv |-> priv, pub |-> PubOf(priv)]

ssh_pki_export_pubkey_base64(pub) == prossh_base64_encode(pub)

\* the bytes of an unarmored base64 token, <<-1>> when it is no base64
Base64Decode(chars) ==
    LET n == Len(chars)
        padding == (IF n >= 1 /\ chars[n] = 61 THEN 1 ELSE 0)
                 + (IF n >= 2 /\ chars[n - 1] = 61 THEN 1 ELSE 0)
        decoded == EVP_DecodeBlock(chars)
    IN  IF n = 0 \/ (\E i \in 1..n : ~IsBase64Char(chars[i])) \/ decoded = NULL THEN NULL
        ELSE SubSeq(decoded, 1, Len(decoded) - padding)

\* ssh_pki_import_pubkey_base64: the public blob, <<-1>> on failure
ssh_pki_import_pubkey_base64(base64_token, parsed_type) ==
    LET blob == Base64Decode(base64_token)
    IN  IF blob = NULL \/ ssh_key_type(blob) # parsed_type THEN NULL ELSE blob

MD5Fingerprint(pub) ==
    Md5Prefix \o [j \in 1..4 |-> B64Char(26 + ((SumSeq(pub) * (j + 3) + 11 * Len(pub)) % 16))]

\* a traditional PEM body: a DER sequence holding the key
PemText(priv) ==
    PemBegin \o <<NL>> \o prossh_base64_encode(<<48>> \o priv) \o <<NL>> \o PemEnd \o <<NL>>

\* a traditional PEM body under Proc-Type: 4,ENCRYPTED
PemEncryptedText(priv, passphrase) ==
    LET key_material == bcrypt_pbkdf(passphrase, Zeros(SaltLen), 48)
        body == prossh_encrypt_aes256_ctr(<<48>> \o priv, SubSeq(key_material, 1, 32),
                                          SubSeq(key_material, 33, 48))
    IN  PemBegin \o <<NL>> \o PemEncHeader \o prossh_base64_encode(body) \o <<NL>>
            \o PemEnd \o <<NL>>

Pkcs8Text(priv) ==
    Pkcs8Begin \o <<NL>> \o prossh_base64_encode(<<48, 2>> \o priv) \o <<NL>> \o Pkcs8End \o <<NL>>

KeyFromBlob(priv) == [ok |-> TRUE, priv |-> priv, pub |-> PubOf(priv), comment |-> <<>>]

\* reading a traditional PEM key, encrypted or not
DecodePEM(text, passphrase) ==
    LET encrypted == strstr(text, StrProcType) # 0
        begin == strstr(text, PemBegin) + Len(PemBegin)
                   + (IF encrypted THEN Len(PemEncHeader) + 1 ELSE 0)
        end == strstr(text, PemEnd)
        Plain(plain) == IF Len(plain) < 3 \/ plain[1] # 48 THEN NoKey
                        ELSE KeyFromBlob(Tail(plain))
        Derived(body, key_material) ==
            Plain(decrypt_aes256_ctr(body, SubSeq(key_material, 1, 32),
                                     SubSeq(key_material, 33, 48)))
        Body(body) ==
            IF body = NULL THEN NoKey
            ELSE IF encrypted /\ (passphrase = NULL \/ passphrase = <<>>) THEN NoKey
            ELSE IF encrypted THEN Derived(body, bcrypt_pbkdf(passphrase, Zeros(SaltLen), 48))
            ELSE Plain(body)
    IN  IF end = 0 \/ end < begin THEN NoKey
        ELSE Body(Base64Decode(SelectSeq(SubSeq(text, begin, end - 1), IsBase64Char)))

\* reading an unencrypted PKCS#8 key
DecodePKCS8(text) ==
    LET begin == strstr(text, Pkcs8Begin) + Len(Pkcs8Begin)
        end == strstr(text, Pkcs8End)
        Body(body) ==
            IF body = NULL THEN NoKey
            ELSE IF Len(body) < 4 \/ body[1] # 48 \/ body[2] # 2 THEN NoKey
            ELSE KeyFromBlob(Tail(Tail(body)))
    IN  IF end = 0 \/ end < begin THEN NoKey
        ELSE Body(Base64Decode(SelectSeq(SubSeq(text, begin, end - 1), IsBase64Char)))

\* ssh_pki_import_privkey_base64: any of the private key formats
ssh_pki_import_privkey_base64(text, passphrase) ==
    IF strstr(text, StrBeginOpenssh) # 0 THEN DecodeOpenSSH(text, passphrase)
    ELSE IF strstr(text, PemBegin) # 0 THEN DecodePEM(text, passphrase)
    ELSE IF strstr(text, Pkcs8Begin) # 0 THEN DecodePKCS8(text)
    ELSE NoKey

\* ssh_pki_export_privkey_base64_format without a passphrase
ssh_pki_export_privkey_base64_format(private_key, file_format, seed) ==
    IF file_format = "SSH_FILE_FORMAT_PEM" THEN PemText(private_key.priv)
    ELSE prossh_export_openssh_private_key(private_key, NULL, PROSSH_PRIVATE_KEY_CIPHER_NONE,
             NULL, TRUE, CheckintOf(seed), SaltOf(seed), 0).output

\* the message the encoder leaves in error_buffer with its return code
ExportErrorMessage(rc) ==
    CASE rc = -1 -> "Invalid OpenSSH private key export parameters."
      [] rc = -2 -> "Failed to export OpenSSH public key blob."
      [] rc = -3 -> "Failed to export OpenSSH private key blob."
      [] rc = -4 -> "Failed to allocate OpenSSH private section buffer."
      [] rc = -5 -> "Failed to generate OpenSSH checkint."
      [] rc = -6 -> "Failed to assemble OpenSSH private section."
      [] rc = -7 -> "Failed to append OpenSSH private key padding."
      [] rc = -8 -> "Failed to allocate OpenSSH key-derivation buffer."
      [] rc = -9 -> "Failed to generate OpenSSH KDF salt."
      [] rc = -10 -> "OpenSSH bcrypt key derivation failed."
      [] rc = -11 -> "Failed to encrypt OpenSSH private section."
      [] rc = -12 -> "Failed to allocate OpenSSH private output."
      [] rc = -13 -> "Failed to allocate OpenSSH output buffer."
      [] rc = -14 -> "Failed to allocate OpenSSH KDF options buffer."
      [] rc = -15 -> "Failed to encode OpenSSH KDF options."
      [] rc = -16 -> "Failed to encode OpenSSH private key output."
      [] rc = -17 -> "Failed to base64 encode OpenSSH private key."
      [] rc = -18 -> "Failed to allocate OpenSSH final output buffer."
      [] OTHER -> ""

\* prossh_convert_pem_to_pkcs8: [rc, output, error]; fail names the return code
\* whose step does not succeed
prossh_convert_pem_to_pkcs8(pem_input, fail) ==
    LET R(rc, output, error) == [rc |-> rc, output |-> output, error |-> error]
        \* private_key is what PEM_read_bio_PrivateKey read
        Read(private_key) ==
            IF ~private_key.ok
            THEN R(-3, NULL, "Failed to parse PEM private key for PKCS#8 conversion.")
            ELSE IF fail = 4
                 THEN R(-4, NULL, "Failed to allocate output BIO for PKCS#8 conversion.")
            ELSE IF fail = 5 THEN R(-5, NULL, "Failed to encode PKCS#8 private key.")
            ELSE IF fail = 6 THEN R(-6, NULL, "PKCS#8 conversion produced empty output.")
            ELSE IF fail = 7 THEN R(-7, NULL, "Failed to allocate PKCS#8 output buffer.")
            ELSE R(0, Pkcs8Text(private_key.priv), "")
    IN  IF pem_input = NULL THEN R(-1, NULL, "Invalid PKCS#8 conversion input.")
        ELSE IF fail = 2 THEN R(-2, NULL, "Failed to allocate BIO for PKCS#8 conversion.")
        ELSE IF strstr(pem_input, PemBegin) # 0 THEN Read(DecodePEM(pem_input, NULL))
        ELSE IF strstr(pem_input, Pkcs8Begin) # 0 THEN Read(DecodePKCS8(pem_input))
        ELSE Read(NoKey)

\* a line that never carries the comment
AuthorizedLine_m(public_key_type, public_key_base64, safe_comment) ==
    public_key_type \o <<32>> \o public_key_base64

\* snprintf of "%s %s" or "%s %s %s": what the line would be in full
AuthorizedLine(public_key_type, public_key_base64, safe_comment) ==
    public_key_type \o <<32>> \o public_key_base64 \o
        (IF safe_comment = <<>> THEN <<>> ELSE <<32>> \o safe_comment)

\* prossh_export_authorized_public_key: [rc, public_key_buffer]
prossh_export_authorized_public_key(public_key, comment, public_key_buffer_len, fail) ==
    LET named == ssh_key_type_to_char(ssh_key_type(public_key))
        public_key_type == IF named = <<>> THEN TypeUnknownName ELSE named
        safe_comment == IF comment = NULL THEN <<>> ELSE comment
        line == AuthorizedLine(public_key_type, ssh_pki_export_pubkey_base64(public_key),
                               safe_comment)
    IN  IF public_key = NULL \/ public_key_buffer_len = 0
        THEN [rc |-> -1, public_key_buffer |-> <<>>]
        ELSE IF fail THEN [rc |-> -2, public_key_buffer |-> <<>>]
        ELSE [rc |-> IF Len(line) >= public_key_buffer_len THEN -3 ELSE 0,
              public_key_buffer |-> prossh_copy_string(public_key_buffer_len, line)]

\* prossh_map_imported_key_type: [rc, key_type_buffer, bit_length]
prossh_map_imported_key_type(key, key_type_buffer_len) ==
    LET key_type == ssh_key_type(key)
        size == ssh_key_size(key_type)
        detected_bits ==
            IF size > 0 THEN size
            ELSE CASE key_type = "SSH_KEYTYPE_ED25519" -> 256
                   [] key_type = "SSH_KEYTYPE_ECDSA_P256" -> 256
                   [] key_type = "SSH_KEYTYPE_ECDSA_P384" -> 384
                   [] key_type = "SSH_KEYTYPE_ECDSA_P521" -> 521
                   [] key_type = "SSH_KEYTYPE_DSS" -> 1024
                   [] OTHER -> -1
        R(rc, name) == [rc |-> rc, key_type_buffer |-> prossh_copy_string(key_type_buffer_len, name),
                        bit_length |-> detected_bits]
    IN  IF key = NULL \/ key_type_buffer_len = 0
        THEN [rc |-> -1, key_type_buffer |-> <<>>, bit_length |-> -1]
        ELSE CASE key_type = "SSH_KEYTYPE_RSA" -> R(0, ShortRsa)
               [] key_type = "SSH_KEYTYPE_ED25519" -> R(0, ShortEd25519)
               [] OTHER -> R(-2, ShortUnknown)

FingerprintBufferLen == 128

KeyTypeBufferLen == 32

\* the outputs of a pipeline call, as the first lines of each call leave them
NoResult ==
    [rc |-> 0, error |-> "", private_key_buffer |-> <<>>, public_key_buffer |-> <<>>,
     sha256_fingerprint_buffer |-> <<>>, md5_fingerprint_buffer |-> <<>>,
     key_type_buffer |-> <<>>, bit_length |-> -1, is_private_key |-> 0,
     is_passphrase_protected |-> 0,
     detected_private_format |-> PROSSH_PRIVATE_KEY_OPENSSH,
     detected_private_cipher |-> PROSSH_PRIVATE_KEY_CIPHER_NONE,
     output_is_passphrase_protected |-> 0,
     output_private_cipher |-> PROSSH_PRIVATE_KEY_CIPHER_NONE,
     attempted |-> {}, freed |-> {}]

\* prossh_fill_key_fingerprints on a result
WithFingerprints(r, public_key) ==
    [r EXCEPT !.sha256_fingerprint_buffer =
                  prossh_copy_string(FingerprintBufferLen, Fingerprint(public_key)),
              !.md5_fingerprint_buffer =
                  prossh_copy_string(FingerprintBufferLen, MD5Fingerprint(public_key))]

Failure(r, rc, error) == [r EXCEPT !.rc = rc, !.error = error]

\* prossh_secure_free_cstring and ssh_string_free_char of a text buffer
SecureFreed(buf, text) == Freed(buf, prossh_secure_clear(text))

HasPassphrase(passphrase) == passphrase # NULL /\ passphrase # <<>>

\* the output combination the pipeline refuses: a passphrase with a format other than OpenSSH
UnsupportedOutput_m(has_passphrase, private_key_format) ==
    has_passphrase /\ private_key_format = PROSSH_PRIVATE_KEY_PEM

UnsupportedOutput(has_passphrase, private_key_format) ==
    has_passphrase /\ private_key_format # PROSSH_PRIVATE_KEY_OPENSSH

\* prossh_libssh_generate_keypair.  The steps of the function are the local
\* operators, last step first; each takes what the steps before it produced.
prossh_libssh_generate_keypair(algorithm, parameter, private_key_format, passphrase, private_key_cipher, comment, private_key_buffer_len, public_key_buffer_len, seed, fail) ==
    LET has_passphrase == HasPassphrase(passphrase)
        private_key_uses_malloc ==
            has_passphrase /\ private_key_format = PROSSH_PRIVATE_KEY_OPENSSH
        key_type == prossh_map_key_algorithm(algorithm)
        made == [NoResult EXCEPT !.attempted = {"generate_key"}]
        converting == private_key_format = PROSSH_PRIVATE_KEY_PKCS8
        safe_comment == IF comment = NULL THEN <<>> ELSE comment
        \* lines 2262-2300: the private key text and the fingerprints
        Copied(r, public_key, final_private_key) ==
            WithFingerprints(
                [r EXCEPT !.private_key_buffer =
                              prossh_copy_string(private_key_buffer_len, final_private_key)],
                public_key)
        \* lines 2240-2260: p is what prossh_convert_pem_to_pkcs8 returned
        Converted(r, public_key, p) ==
            IF p.rc # 0 \/ p.output = NULL
            THEN Failure([r EXCEPT !.attempted = @ \cup {"pkcs8_convert"}], -9, p.error)
            ELSE Copied([r EXCEPT !.attempted = @ \cup {"pkcs8_convert"},
                                  !.freed = @ \cup {SecureFreed("pkcs8_output", p.output)}],
                        public_key, p.output)
        \* lines 2199-2238: line is the text snprintf was asked to write
        Lined(r, public_key, private_key_output, line) ==
            IF Len(line) >= public_key_buffer_len
            THEN Failure(r, -8, "Public key output exceeded buffer size.")
            ELSE IF converting /\ has_passphrase
            THEN Failure(r, -9,
                     "Passphrase encryption is currently unsupported for PKCS#8 export.")
            ELSE IF converting
            THEN Converted(r, public_key,
                     prossh_convert_pem_to_pkcs8(private_key_output, IF fail = 9 THEN 5 ELSE 0))
            ELSE Copied(r, public_key, private_key_output)
        \* lines 2177-2197: the public key in base64 and its type name
        Named(r, public_key, private_key_output, public_key_type) ==
            IF fail = 7 THEN Failure(r, -7, "Failed to export public key.")
            ELSE Lined([r EXCEPT !.public_key_buffer =
                           prossh_copy_string(public_key_buffer_len,
                               AuthorizedLine(public_key_type,
                                   ssh_pki_export_pubkey_base64(public_key), safe_comment))],
                       public_key, private_key_output,
                       AuthorizedLine(public_key_type,
                                      ssh_pki_export_pubkey_base64(public_key), safe_comment))
        \* the private key has been exported; cleanup releases it on every path
        Exported(r, public_key, private_key_output) ==
            Named([r EXCEPT !.freed = @ \cup
                      {IF private_key_uses_malloc
                       THEN SecureFreed("private_key_output", private_key_output)
                       ELSE Freed("private_key_output", private_key_output)}],
                  public_key, private_key_output,
                  IF ssh_key_type_to_char(ssh_key_type(public_key)) = <<>>
                  THEN TypeUnknownName
                  ELSE ssh_key_type_to_char(ssh_key_type(public_key)))
        \* lines 2132-2147: e is what prossh_export_openssh_private_key returned
        Encrypted(r, public_key, e) ==
            IF e.rc # 0 \/ e.output = NULL
            THEN Failure([r EXCEPT !.attempted = @ \cup {"export_private"}, !.freed = e.freed],
                         -6, ExportErrorMessage(e.rc))
            ELSE Exported([r EXCEPT !.attempted = @ \cup {"export_private"}, !.freed = e.freed],
                          public_key, e.output)
        \* lines 2132-2175: the private key is exported in the requested format
        Generated(private_key) ==
            IF private_key_uses_malloc
            THEN Encrypted(made, private_key.pub,
                     prossh_export_openssh_private_key(private_key, passphrase,
                         private_key_cipher, comment, TRUE, CheckintOf(seed), SaltOf(seed),
                         IF fail = 6 THEN 11 ELSE 0))
            ELSE IF UnsupportedOutput(has_passphrase, private_key_format)
            THEN Failure(made, -6,
                "Passphrase encryption is currently supported for OpenSSH private key format only.")
            ELSE IF fail = 6
            THEN Failure([made EXCEPT !.attempted = @ \cup {"export_private"}], -6,
                         "Failed to export private key.")
            ELSE Exported([made EXCEPT !.attempted = @ \cup {"export_private"}],
                          private_key.pub,
                          ssh_pki_export_privkey_base64_format(private_key,
                              prossh_map_private_key_format(private_key_format), seed))
    IN  IF key_type = "SSH_KEYTYPE_UNKNOWN"
        THEN Failure(NoResult, -1, "Unsupported key generation algorithm.")
        ELSE IF fail = 2 THEN Failure(NoResult, -2, "Failed to allocate PKI context.")
        ELSE IF algorithm = PROSSH_KEY_RSA /\ parameter > 0 /\ fail = 3
             THEN Failure(NoResult, -3, "Failed to set RSA key size.")
        ELSE IF fail = 4 THEN Failure(made, -4, "Key generation failed.")
        ELSE IF fail = 5 THEN Failure(made, -5, "Failed to derive public key.")
        ELSE Generated(ssh_pki_generate_key(key_type))

\* the message of a failed private-key import (lines 2409-2421, 2691-2703)
ImportFailureMessage_m(encrypted, effective_passphrase, required, failed) ==
    failed

ImportFailureMessage(encrypted, effective_passphrase, required, failed) ==
    IF encrypted /\ (effective_passphrase = NULL \/ effective_passphrase = <<>>)
    THEN required ELSE failed

\* prossh_libssh_import_key.  The steps of the function are the local operators,
\* last step first; each takes what the steps before it produced.
prossh_libssh_import_key(key_input, passphrase, comment, private_key_buffer_len, public_key_buffer_len, fail) ==
    LET effective_passphrase == IF passphrase = <<>> THEN NULL ELSE passphrase
        normalized_comment == NormalizedComment(comment)
        \* lines 2449-2476: m is what prossh_map_imported_key_type returned
        PrivateTyped(r, public_key, m) ==
            IF m.rc # 0
            THEN Failure([r EXCEPT !.key_type_buffer = m.key_type_buffer,
                                   !.bit_length = m.bit_length], -5,
                         "Imported key type is unsupported.")
            ELSE WithFingerprints(
                     [r EXCEPT !.key_type_buffer = m.key_type_buffer,
                               !.bit_length = m.bit_length,
                               !.is_private_key = 1,
                               !.is_passphrase_protected =
                                   IF effective_passphrase # NULL /\ effective_passphrase # <<>>
                                   THEN 1 ELSE @],
                     public_key)
        \* lines 2433-2447: a is what prossh_export_authorized_public_key returned
        PrivateLined(r, trimmed, public_key, a) ==
            IF a.rc # 0
            THEN Failure([r EXCEPT !.public_key_buffer = a.public_key_buffer], -4,
                         "Failed to export public key during import.")
            ELSE PrivateTyped([r EXCEPT !.public_key_buffer = a.public_key_buffer,
                                        !.private_key_buffer =
                                            prossh_copy_string(private_key_buffer_len, trimmed)],
                              public_key,
                              prossh_map_imported_key_type(public_key, KeyTypeBufferLen))
        \* lines 2394-2431: private_key is what ssh_pki_import_privkey_base64 read
        PrivateRead(r, trimmed, encrypted, private_key) ==
            IF ~private_key.ok
            THEN Failure(r, -2, ImportFailureMessage(encrypted, effective_passphrase,
                     "This private key is encrypted. Provide a passphrase to import it.",
                     "Failed to import private key. Verify the key format and passphrase."))
            ELSE IF fail = 3
            THEN Failure(r, -3, "Failed to derive public key from private key.")
            ELSE PrivateLined(r, trimmed, private_key.pub,
                     prossh_export_authorized_public_key(private_key.pub, normalized_comment,
                                                         public_key_buffer_len, fail = 4))
        \* lines 2379-2392: detected is what prossh_detect_private_key_cipher returned
        PrivateDetected(r, trimmed, format, detected) ==
            PrivateRead([r EXCEPT !.detected_private_format = format,
                                  !.detected_private_cipher = detected.cipher,
                                  !.is_passphrase_protected =
                                      IF detected.is_passphrase_protected THEN 1 ELSE 0,
                                  !.attempted = {"import_private"}],
                        trimmed, detected.is_passphrase_protected,
                        ssh_pki_import_privkey_base64(trimmed, effective_passphrase))
        PrivateFormat(r, trimmed, format) ==
            PrivateDetected(r, trimmed, format,
                            prossh_detect_private_key_cipher(format, trimmed))
        \* lines 2580-2607: n is what prossh_map_imported_key_type returned
        PublicTyped(r, public_key, n) ==
            IF n.rc # 0
            THEN Failure([r EXCEPT !.key_type_buffer = n.key_type_buffer,
                                   !.bit_length = n.bit_length], -11,
                         "Imported public key type is unsupported.")
            ELSE WithFingerprints([r EXCEPT !.key_type_buffer = n.key_type_buffer,
                                            !.bit_length = n.bit_length],
                                  public_key)
        \* lines 2562-2578: b is what prossh_export_authorized_public_key returned
        PublicLined(r, public_key, b) ==
            IF b.rc # 0
            THEN Failure([r EXCEPT !.public_key_buffer = b.public_key_buffer], -10,
                         "Failed to normalize imported public key.")
            ELSE PublicTyped([r EXCEPT !.public_key_buffer = b.public_key_buffer], public_key,
                             prossh_map_imported_key_type(public_key, KeyTypeBufferLen))
        \* lines 2544-2560: public_key is what ssh_pki_import_pubkey_base64 read
        PublicDecoded(r, public_key, effective_comment) ==
            IF public_key = NULL THEN Failure(r, -9, "Failed to import public key.")
            ELSE PublicLined(r, public_key,
                     prossh_export_authorized_public_key(public_key, effective_comment,
                                                         public_key_buffer_len, fail = 10))
        \* lines 2530-2542
        PublicParsed(r, base64_token, comment_token, parsed_type) ==
            IF parsed_type = "SSH_KEYTYPE_UNKNOWN"
            THEN Failure(r, -8, "Unsupported public key type.")
            ELSE PublicDecoded(r, ssh_pki_import_pubkey_base64(base64_token, parsed_type),
                               IF normalized_comment = <<>> /\ comment_token # <<>>
                               THEN comment_token ELSE normalized_comment)
        \* lines 2496-2528: the three tokens of the line are copied out
        PublicTokens(r, type_token, base64_token, comment_token) ==
            IF fail = 6 THEN Failure(r, -6, "Public key import parsing failed.")
            ELSE IF type_token = <<>> \/ base64_token = <<>>
            THEN Failure([r EXCEPT !.freed = @ \cup {Freed("type_token", type_token),
                                                     Freed("base64_token", base64_token),
                                                     Freed("comment_token", comment_token)}],
                         -7, "Invalid public key format.")
            ELSE PublicParsed([r EXCEPT !.freed = @ \cup {Freed("type_token", type_token),
                                                          Freed("base64_token", base64_token),
                                                          Freed("comment_token", comment_token)}],
                              base64_token, comment_token, ssh_key_type_from_name(type_token))
        \* lines 2478-2494: the cursor walk over the trimmed text
        PublicBase64(r, trimmed, type_start, type_end, base64_start, base64_end) ==
            PublicTokens(r, SubSeq(trimmed, type_start, type_end - 1),
                         SubSeq(trimmed, base64_start, base64_end - 1),
                         SubSeq(trimmed, SkipBlank(trimmed, base64_end), Len(trimmed)))
        PublicType(r, trimmed, type_start, type_end, base64_start) ==
            PublicBase64(r, trimmed, type_start, type_end, base64_start,
                         TokenEnd(trimmed, base64_start))
        PublicCursor(r, trimmed, type_start, type_end) ==
            PublicType(r, trimmed, type_start, type_end, SkipBlank(trimmed, type_end))
        \* lines 2361-2377: what kind of key the text looks like
        Trimmed(trimmed) ==
            IF trimmed = NULL
            THEN Failure(NoResult, -1, "No key text was provided for import.")
            ELSE IF trimmed = <<>>
            THEN Failure([NoResult EXCEPT !.freed = {SecureFreed("trimmed", trimmed)}], -1,
                         "No key text was provided for import.")
            ELSE IF \/ strstr(trimmed, StrPrivateKeyDashes) # 0
                    \/ strstr(trimmed, StrBeginOpenssh) # 0
                    \/ ~(\/ strncmp(trimmed, PrefixSsh)
                         \/ strncmp(trimmed, PrefixEcdsa)
                         \/ strncmp(trimmed, PrefixSk))
            THEN PrivateFormat([NoResult EXCEPT !.freed = {SecureFreed("trimmed", trimmed)}],
                               trimmed, prossh_detect_private_key_format(trimmed))
            ELSE PublicCursor([NoResult EXCEPT !.freed = {SecureFreed("trimmed", trimmed)}],
                              trimmed, SkipBlank(trimmed, 1),
                              TokenEnd(trimmed, SkipBlank(trimmed, 1)))
    IN  Trimmed(prossh_trimmed_copy(key_input))

\* prossh_libssh_convert_private_key.  The steps of the function are the local
\* operators, last step first; each takes what the steps before it produced.
prossh_libssh_convert_private_key(private_key_input, input_passphrase, output_private_key_format, output_passphrase, output_private_key_cipher, comment, private_key_buffer_len, public_key_buffer_len, seed, fail) ==
    LET effective_input_passphrase ==
            IF input_passphrase = <<>> THEN NULL ELSE input_passphrase
        effective_output_passphrase ==
            IF output_passphrase = <<>> THEN NULL ELSE output_passphrase
        normalized_comment == NormalizedComment(comment)
        output_is_encrypted == effective_output_passphrase # NULL
        converting == output_private_key_format = PROSSH_PRIVATE_KEY_PKCS8
        \* lines 2789-2821: the private key text, the fingerprints, the output flags
        Copied(r, public_key, final_private_key) ==
            WithFingerprints(
                [r EXCEPT !.private_key_buffer =
                              prossh_copy_string(private_key_buffer_len, final_private_key),
                          !.output_is_passphrase_protected =
                              IF output_is_encrypted THEN 1 ELSE 0,
                          !.output_private_cipher =
                              IF output_is_encrypted THEN output_private_key_cipher
                              ELSE PROSSH_PRIVATE_KEY_CIPHER_NONE],
                public_key)
        \* lines 2769-2787: p is what prossh_convert_pem_to_pkcs8 returned
        Converted(r, public_key, p) ==
            IF p.rc # 0 \/ p.output = NULL
            THEN Failure([r EXCEPT !.attempted = @ \cup {"pkcs8_convert"}], -10, p.error)
            ELSE Copied([r EXCEPT !.attempted = @ \cup {"pkcs8_convert"},
                                  !.freed = @ \cup {SecureFreed("pkcs8_output", p.output)}],
                        public_key, p.output)
        \* the private key has been exported; cleanup releases it on every path
        Exported(r, public_key, private_key_output, private_key_uses_malloc) ==
            IF converting
            THEN Converted([r EXCEPT !.freed = @ \cup
                               {IF private_key_uses_malloc
                                THEN SecureFreed("private_key_output", private_key_output)
                                ELSE Freed("private_key_output", private_key_output)}],
                           public_key,
                           prossh_convert_pem_to_pkcs8(private_key_output,
                                                       IF fail = 10 THEN 5 ELSE 0))
            ELSE Copied([r EXCEPT !.freed = @ \cup
                            {IF private_key_uses_malloc
                             THEN SecureFreed("private_key_output", private_key_output)
                             ELSE Freed("private_key_output", private_key_output)}],
                        public_key, private_key_output)
        \* lines 2737-2752: e is what prossh_export_openssh_private_key returned
        Encrypted(r, public_key, e) ==
            IF e.rc # 0 \/ e.output = NULL
            THEN Failure([r EXCEPT !.attempted = @ \cup {"export_private"},
                                   !.freed = @ \cup e.freed],
                         -8, ExportErrorMessage(e.rc))
            ELSE Exported([r EXCEPT !.attempted = @ \cup {"export_private"},
                                    !.freed = @ \cup e.freed],
                          public_key, e.output, TRUE)
        \* lines 2721-2767: a is what prossh_export_authorized_public_key returned
        Lined(r, private_key, a) ==
            IF a.rc # 0
            THEN Failure([r EXCEPT !.public_key_buffer = a.public_key_buffer], -7,
                         "Failed to export public key during conversion.")
            ELSE IF output_private_key_format = PROSSH_PRIVATE_KEY_OPENSSH /\ output_is_encrypted
            THEN Encrypted([r EXCEPT !.public_key_buffer = a.public_key_buffer],
                     private_key.pub,
                     prossh_export_openssh_private_key(
                         [priv |-> private_key.priv, pub |-> private_key.pub],
                         effective_output_passphrase, output_private_key_cipher,
                         normalized_comment, TRUE, CheckintOf(seed), SaltOf(seed),
                         IF fail = 8 THEN 11 ELSE 0))
            ELSE IF fail = 9
            THEN Failure([r EXCEPT !.public_key_buffer = a.public_key_buffer,
                                   !.attempted = @ \cup {"export_private"}], -9,
                         "Failed to export converted private key.")
            ELSE Exported([r EXCEPT !.public_key_buffer = a.public_key_buffer,
                                    !.attempted = @ \cup {"export_private"}],
                          private_key.pub,
                          ssh_pki_export_privkey_base64_format(
                              [priv |-> private_key.priv, pub |-> private_key.pub],
                              prossh_map_private_key_format(output_private_key_format), seed),
                          FALSE)
        \* lines 2677-2719: private_key is what ssh_pki_import_privkey_base64 read
        Imported(r, trimmed, private_key) ==
            IF ~private_key.ok
            THEN Failure(r, -5, ImportFailureMessage(
                     prossh_detect_private_key_cipher(
                         prossh_detect_private_key_format(trimmed),
                         trimmed).is_passphrase_protected,
                     effective_input_passphrase,
                     "This private key is encrypted. Provide the current passphrase to convert it.",
                     "Failed to import private key for conversion. Verify the key format and passphrase."))
            ELSE IF fail = 6
            THEN Failure(r, -6, "Failed to derive public key during conversion.")
            ELSE Lined(r, private_key,
                       prossh_export_authorized_public_key(private_key.pub, normalized_comment,
                                                           public_key_buffer_len, fail = 7))
        \* lines 2641-2675: the checks the input and the requested output must pass
        Trimmed(trimmed) ==
            IF trimmed = NULL
            THEN Failure(NoResult, -1, "No private key text was provided for conversion.")
            ELSE IF trimmed = <<>>
            THEN Failure([NoResult EXCEPT !.freed = {SecureFreed("trimmed", trimmed)}], -1,
                         "No private key text was provided for conversion.")
            ELSE IF strstr(trimmed, StrPrivateKeyDashes) = 0
                    /\ strstr(trimmed, StrBeginOpenssh) = 0
            THEN Failure([NoResult EXCEPT !.freed = {SecureFreed("trimmed", trimmed)}], -2,
                         "Key conversion requires a private key.")
            ELSE IF UnsupportedOutput(output_is_encrypted, output_private_key_format)
            THEN Failure([NoResult EXCEPT !.freed = {SecureFreed("trimmed", trimmed)}], -3,
                     "Passphrase encryption is currently supported for OpenSSH output format only.")
            ELSE Imported([NoResult EXCEPT !.freed = {SecureFreed("trimmed", trimmed)},
                                           !.attempted = {"import_private"}],
                          trimmed,
                          ssh_pki_import_privkey_base64(trimmed, effective_input_passphrase))
    IN  Trimmed(prossh_trimmed_copy(private_key_input))

----------------------------------------------------------------------------
(* Inputs of the pipeline calls *)

KeyEd25519 == ssh_pki_generate_key("SSH_KEYTYPE_ED25519")

KeyRsa == ssh_pki_generate_key("SSH_KEYTYPE_RSA")

TextAes ==
    prossh_export_openssh_private_key(KeyEd25519, <<97>>, PROSSH_PRIVATE_KEY_CIPHER_AES256CTR,
        NULL, TRUE, CheckintOf(0), SaltOf(0), 0).output

TextChacha ==
    prossh_export_openssh_private_key(KeyEd25519, <<97>>,
        PROSSH_PRIVATE_KEY_CIPHER_CHACHA20_POLY1305, NULL, TRUE, CheckintOf(0), SaltOf(0), 0).output

TextPlain ==
    prossh_export_openssh_private_key(KeyEd25519, NULL, PROSSH_PRIVATE_KEY_CIPHER_NONE,
        NULL, TRUE, CheckintOf(0), SaltOf(0), 0).output

TextPem == PemText(KeyRsa.priv)

TextPemEncrypted == PemEncryptedText(KeyRsa.priv, <<97>>)

TextPkcs8 == Pkcs8Text(KeyRsa.priv)

TextPublic == TypeEd25519 \o <<32>> \o prossh_base64_encode(KeyEd25519.pub) \o <<32, 109, 101>>

TextPublicUnknown == TypeFoo \o <<32>> \o prossh_base64_encode(KeyEd25519.pub)

TextPublicBroken == TypeRsa \o <<32>> \o <<33, 33>>

TextPadded == <<32, NL>> \o TextAes \o <<NL, 32>>

EncryptedKeyTexts == {TextAes, TextChacha, TextPemEncrypted, TextPadded}

PrivateKeyTexts == EncryptedKeyTexts \cup {TextPlain, TextPem, TextPkcs8}

\* a public key line that carries a private-key marker behind it
TextPublicMarked == TextPublic \o <<32>> \o StrBeginOpenssh

\* lines of the two other families, of types the model's libssh does not know, and a
\* public key line with tabs between its tokens and white space around it
TextPublicEcdsa == PrefixEcdsa \o <<102, 111, 111, 32>> \o prossh_base64_encode(KeyEd25519.pub)

TextPublicSk == PrefixSk \o <<102, 111, 111, 32>> \o prossh_base64_encode(KeyEd25519.pub)

TextPublicTabbed ==
    <<32, NL>> \o TypeEd25519 \o <<9, 32>> \o prossh_base64_encode(KeyEd25519.pub) \o <<9, NL>>

PublicKeyTexts ==
    {TypeRsa, TextPublic, TextPublicUnknown, TextPublicBroken, TextPublicMarked,
     TextPublicEcdsa, TextPublicSk, TextPublicTabbed}

KeyInputs == PrivateKeyTexts \cup {NULL, <<32, NL>>, Hello} \cup PublicKeyTexts

ConvertInputs ==
    {NULL, Hello, TextAes, TextChacha, TextPlain, TextPem, TextPemEncrypted, TextPadded}

Algorithms == {PROSSH_KEY_RSA, PROSSH_KEY_ED25519, 6}

Formats == {PROSSH_PRIVATE_KEY_OPENSSH, PROSSH_PRIVATE_KEY_PEM, PROSSH_PRIVATE_KEY_PKCS8}

\* the output passphrase and the cipher asked for
Outputs ==
    {[passphrase |-> NULL, cipher |-> PROSSH_PRIVATE_KEY_CIPHER_NONE],
     [passphrase |-> <<>>, cipher |-> PROSSH_PRIVATE_KEY_CIPHER_CHACHA20_POLY1305],
     [passphrase |-> <<97>>, cipher |-> PROSSH_PRIVATE_KEY_CIPHER_NONE],
     [passphrase |-> <<97>>, cipher |-> PROSSH_PRIVATE_KEY_CIPHER_CHACHA20_POLY1305]}

PipelineComments == {NULL, <<32, 99>>}

\* the capacities of private_key_buffer and public_key_buffer
AmpleLens == [private |-> 4096, public |-> 4096]

BufferLens == {AmpleLens, [private |-> 4096, public |-> 8], [private |-> 40, public |-> 4096]}

GenerateFailPoints == {0} \cup (2..7) \cup {9}

ImportFailPoints == {0, 3, 4, 6, 10}

ConvertFailPoints == {0} \cup (6..10)

\* a library step fails only in calls with ample buffers
Environments(fail_points) ==
    {[lens |-> AmpleLens, fail |-> f] : f \in fail_points}
        \cup {[lens |-> l, fail |-> 0] : l \in BufferLens}

NoRequest ==
    [key_input |-> NULL, passphrase |-> NULL, algorithm |-> 0, parameter |-> 0,
     format |-> 0, output_passphrase |-> NULL, cipher |-> 0, comment |-> NULL,
     lens |-> [private |-> 0, public |-> 0], seed |-> 0, fail |-> 0]

----------------------------------------------------------------------------
(* The state machine: one action per call *)

NoCall ==
    [private_key |-> NullKey, passphrase |-> NULL, requested_cipher |-> 0, comment |-> NULL,
     checkint |-> 0, salt |-> <<>>, fail |-> 0, corrupt |-> "none"]

NoDecode == [passphrase |-> NULL, key |-> NoKey]

NoDetect == [ran |-> FALSE, cipher |-> 0, is_passphrase_protected |-> FALSE, parse_rc |-> 0]

\* no handle has been created; 0 stands for a NULL session or channel
NoHandle == [state |-> "none", session |-> 0, channel |-> 0]

\* no connection call has been made
NoOp == [name |-> "none", rc |-> 0]

\* no earlier call is remembered
NoBefore == [call |-> NoCall, exp |-> NoExport]

Init ==
    /\ phase = "idle"
    /\ call = NoCall
    /\ exp = NoExport
    /\ keytext = NULL
    /\ det = NoDetect
    /\ dec = NoDecode
    /\ req = NoRequest
    /\ res = NoResult
    /\ drawn = 0
    /\ before = NoBefore
    /\ handle = NoHandle
    /\ heap = <<>>
    /\ forwards = {}
    /\ op = NoOp

\* a call of the encoder; on success the caller holds the armored text
Export ==
    /\ phase = "idle"
    /\ \E private_key \in Keys \cup {NullKey}, passphrase \in Passphrases,
          requested_cipher \in RequestedCiphers, comment \in Comments,
          seed \in Seeds, fail \in FailPoints :
          LET checkint == CheckintOf(seed)
              salt == SaltOf(seed)
              r == prossh_export_openssh_private_key(
                       private_key, passphrase, requested_cipher, comment,
                       TRUE, checkint, salt, fail)
          IN  /\ fail = 0 \/ r.rc = -fail     \* only a step this run executes can fail
              /\ exp' = r
              /\ call' = [private_key |-> private_key, passphrase |-> passphrase,
                          requested_cipher |-> requested_cipher, comment |-> comment,
                          checkint |-> checkint, salt |-> salt, fail |-> fail,
                          corrupt |-> "none"]
              /\ keytext' = r.output
    /\ phase' = "export"
    /\ UNCHANGED <<det, dec, req, res>>
    /\ UNCHANGED <<drawn, before>>
    /\ UNCHANGED <<handle, heap, forwards, op>>

\* the call's results go out of scope; nothing is kept between calls
Return ==
    /\ phase # "idle"
    /\ phase' = "idle"
    /\ call' = NoCall
    /\ exp' = NoExport
    /\ keytext' = NULL
    /\ det' = NoDetect
    /\ dec' = NoDecode
    /\ UNCHANGED <<req, res>>
    /\ UNCHANGED <<drawn, before>>
    /\ UNCHANGED <<handle, heap, forwards, op>>

\* the armored text is damaged before anyone reads it
Corrupt ==
    /\ phase = "export"
    /\ exp.rc = 0
    /\ \E kind \in CorruptKinds :
          /\ keytext' = CorruptText(exp.encoded, kind)
          /\ call' = [call EXCEPT !.corrupt = kind]
    /\ phase' = "corrupt"
    /\ UNCHANGED <<exp, det, dec, req, res>>
    /\ UNCHANGED <<drawn, before>>
    /\ UNCHANGED <<handle, heap, forwards, op>>

\* detectFormat, then detectCipher, on the text the caller holds
Detect ==
    /\ phase \in {"export", "corrupt"}
    /\ keytext # NULL
    /\ det' = prossh_detect_private_key_cipher(
                  prossh_detect_private_key_format(keytext), keytext)
    /\ phase' = "detect"
    /\ UNCHANGED <<call, exp, keytext, dec, req, res>>
    /\ UNCHANGED <<drawn, before>>
    /\ UNCHANGED <<handle, heap, forwards, op>>

\* the container the caller holds is decoded with some passphrase
Decode ==
    /\ phase \in {"export", "corrupt"}
    /\ keytext # NULL
    /\ \E passphrase \in Passphrases :
          dec' = [passphrase |-> passphrase, key |-> DecodeOpenSSH(keytext, passphrase)]
    /\ phase' = "decode"
    /\ UNCHANGED <<call, exp, keytext, det, req, res>>
    /\ UNCHANGED <<drawn, before>>
    /\ UNCHANGED <<handle, heap, forwards, op>>

Next == Export \/ Corrupt \/ Detect \/ Decode \/ Return

Spec == Init /\ [][Next]_vars

\* the pipeline calls

Generate ==
    /\ phase = "idle"
    /\ \E algorithm \in Algorithms, parameter \in {0, 2048}, format \in Formats,
          output \in Outputs, comment \in PipelineComments,
          env \in Environments(GenerateFailPoints) :
          \E r \in {prossh_libssh_generate_keypair(algorithm, parameter, format,
                       output.passphrase, output.cipher, comment,
                       env.lens.private, env.lens.public, 0, env.fail)} :
              /\ env.fail = 0 \/ r.rc = -env.fail
              /\ res' = r
              /\ req' = [NoRequest EXCEPT !.algorithm = algorithm, !.parameter = parameter,
                            !.format = format, !.output_passphrase = output.passphrase,
                            !.cipher = output.cipher, !.comment = comment,
                            !.lens = env.lens, !.fail = env.fail]
    /\ phase' = "generate"
    /\ UNCHANGED <<call, exp, keytext, det, dec>>
    /\ UNCHANGED <<drawn, before>>
    /\ UNCHANGED <<handle, heap, forwards, op>>

Import ==
    /\ phase = "idle"
    /\ \E key_input \in KeyInputs, passphrase \in Passphrases, comment \in PipelineComments,
          env \in Environments(ImportFailPoints) :
          \E r \in {prossh_libssh_import_key(key_input, passphrase, comment,
                                            env.lens.private, env.lens.public, env.fail)} :
              /\ env.fail = 0 \/ r.rc = -env.fail
              /\ res' = r
              /\ req' = [NoRequest EXCEPT !.key_input = key_input, !.passphrase = passphrase,
                            !.comment = comment, !.lens = env.lens, !.fail = env.fail]
    /\ phase' = "import"
    /\ UNCHANGED <<call, exp, keytext, det, dec>>
    /\ UNCHANGED <<drawn, before>>
    /\ UNCHANGED <<handle, heap, forwards, op>>

Convert ==
    /\ phase = "idle"
    /\ \E key_input \in ConvertInputs, passphrase \in Passphrases, format \in Formats,
          output \in Outputs, comment \in PipelineComments,
          env \in Environments(ConvertFailPoints) :
          \E r \in {prossh_libssh_convert_private_key(key_input, passphrase, format,
                       output.passphrase, output.cipher, comment,
                       env.lens.private, env.lens.public, 0, env.fail)} :
              /\ env.fail = 0 \/ r.rc = -env.fail
              /\ res' = r
              /\ req' = [NoRequest EXCEPT !.key_input = key_input, !.passphrase = passphrase,
                            !.format = format, !.output_passphrase = output.passphrase,
                            !.cipher = output.cipher, !.comment = comment,
                            !.lens = env.lens, !.fail = env.fail]
    /\ phase' = "convert"
    /\ UNCHANGED <<call, exp, keytext, det, dec>>
    /\ UNCHANGED <<drawn, before>>
    /\ UNCHANGED <<handle, heap, forwards, op>>

\* the caller has read the outputs
Finish ==
    /\ phase \in {"generate", "import", "convert"}
    /\ phase' = "idle"
    /\ req' = NoRequest
    /\ res' = NoResult
    /\ UNCHANGED <<call, exp, keytext, det, dec>>
    /\ UNCHANGED <<drawn, before>>
    /\ UNCHANGED <<handle, heap, forwards, op>>

NextPipeline == Generate \/ Import \/ Convert \/ Finish

SpecPipeline == Init /\ [][NextPipeline]_vars

\* the detector calls on arbitrary text

StrBeginRsa == <<66,69,71,73,78,32,82,83,65,32,80,82,73,86,65,84,69,32,75,69,89>>

\* the pieces a text is made of: the three markers the detector looks for, the
\* marker of a traditional PEM key, other words, nothing
TextPieces ==
    {<<>>, Hello, StrBeginOpenssh, StrBeginPrivate, StrBeginEncrypted, StrBeginRsa}

TextLeads == {<<>>, <<45, 45, 45, 45, 45>>, <<32, NL>>}

DetectTexts ==
    {NULL} \cup {lead \o first \o <<NL>> \o second :
                    lead \in TextLeads, first \in TextPieces, second \in TextPieces}

\* a cipher name no profile of the encoder carries
NameForeign == <<97,101,115,49,50,56,45,99,116,114>>

\* an openssh-key-v1 container as another writer may produce it: any cipher name
ForeignContainer(ciphername) ==
    FormatOutput(prossh_base64_encode(
        EncodeContainer([PROSSH_OPENSSH_CIPHER_AES256CTR EXCEPT !.name = ciphername],
                        KdfBcrypt, KdfOptions(TRUE, SaltOf(0)), KeyOf(1).pub, 16,
                        [i \in 1..16 |-> (7 * i) % 256])))

\* containers: the encoder's three, one with a foreign cipher name, one whose
\* cipher name is longer than the detector's 64-byte buffer
ContainerTexts ==
    {prossh_export_openssh_private_key(KeyOf(1), passphrase, requested_cipher, NULL, TRUE,
                                       CheckintOf(0), SaltOf(0), 0).output :
        passphrase \in {NULL, <<97>>},
        requested_cipher \in {PROSSH_PRIVATE_KEY_CIPHER_AES256CTR,
                              PROSSH_PRIVATE_KEY_CIPHER_CHACHA20_POLY1305}}
    \cup {ForeignContainer(NameForeign), ForeignContainer([i \in 1..70 |-> 97])}

\* the caller holds some text
Hold ==
    /\ phase = "idle"
    /\ keytext' \in DetectTexts \cup ContainerTexts
    /\ phase' = "text"
    /\ UNCHANGED <<call, exp, det, dec, req, res>>
    /\ UNCHANGED <<drawn, before>>
    /\ UNCHANGED <<handle, heap, forwards, op>>

\* prossh_detect_private_key_format on that text; the result goes where import
\* puts it (line 2389)
DetectFormat ==
    /\ phase = "text"
    /\ res' = [res EXCEPT !.detected_private_format =
                              prossh_detect_private_key_format(keytext)]
    /\ phase' = "format"
    /\ UNCHANGED <<call, exp, keytext, det, dec, req>>
    /\ UNCHANGED <<drawn, before>>
    /\ UNCHANGED <<handle, heap, forwards, op>>

\* a second call on the same text; req.format keeps what the first call returned
DetectFormatAgain ==
    /\ phase = "format"
    /\ req' = [req EXCEPT !.format = res.detected_private_format]
    /\ res' = [res EXCEPT !.detected_private_format =
                              prossh_detect_private_key_format(keytext)]
    /\ phase' = "format again"
    /\ UNCHANGED <<call, exp, keytext, det, dec>>
    /\ UNCHANGED <<drawn, before>>
    /\ UNCHANGED <<handle, heap, forwards, op>>

\* prossh_detect_private_key_cipher with the format just detected (lines 2380-2382)
DetectCipher ==
    /\ phase = "format"
    /\ det' = prossh_detect_private_key_cipher(res.detected_private_format, keytext)
    /\ phase' = "cipher"
    /\ UNCHANGED <<call, exp, keytext, dec, req, res>>
    /\ UNCHANGED <<drawn, before>>
    /\ UNCHANGED <<handle, heap, forwards, op>>

\* the text goes out of scope
Forget ==
    /\ phase \in {"text", "format", "format again", "cipher"}
    /\ phase' = "idle"
    /\ keytext' = NULL
    /\ det' = NoDetect
    /\ req' = NoRequest
    /\ res' = NoResult
    /\ UNCHANGED <<call, exp, dec>>
    /\ UNCHANGED <<drawn, before>>
    /\ UNCHANGED <<handle, heap, forwards, op>>

NextDetect == Hold \/ DetectFormat \/ DetectFormatAgain \/ DetectCipher \/ Forget

SpecDetect == Init /\ [][NextDetect]_vars

\* consecutive encoder calls on one random source

\* a source that hands out the same salt to every call
ssh_get_random_m(served) == [checkint |-> CheckintOf(served), salt |-> SaltOf(0)]

\* what ssh_get_random delivers to the call that follows `served` earlier calls: the
\* checkint, then the salt; the source does not repeat itself
ssh_get_random(served) == [checkint |-> CheckintOf(served), salt |-> SaltOf(served)]

SaltFailPoints == {0, 9}

\* a call of the encoder that draws from the random source
ExportFresh ==
    /\ phase \in {"idle", "kept"}
    /\ drawn \in Seeds
    /\ \E private_key \in Keys, passphrase \in {NULL, <<97>>, <<98>>},
          requested_cipher \in {PROSSH_PRIVATE_KEY_CIPHER_AES256CTR,
                                PROSSH_PRIVATE_KEY_CIPHER_CHACHA20_POLY1305},
          fail \in SaltFailPoints :
          \E random \in {ssh_get_random(drawn)} :
          \E r \in {prossh_export_openssh_private_key(
                       private_key, passphrase, requested_cipher, NULL,
                       TRUE, random.checkint, random.salt, fail)} :
              /\ fail = 0 \/ r.rc = -fail
              /\ exp' = r
              /\ call' = [private_key |-> private_key, passphrase |-> passphrase,
                          requested_cipher |-> requested_cipher, comment |-> NULL,
                          checkint |-> random.checkint, salt |-> random.salt,
                          fail |-> fail, corrupt |-> "none"]
              /\ keytext' = r.output
    /\ drawn' = drawn + 1
    /\ phase' = "export"
    /\ UNCHANGED <<det, dec, req, res, before>>
    /\ UNCHANGED <<handle, heap, forwards, op>>

\* the caller keeps the container of the call that just returned
Keep ==
    /\ phase = "export"
    /\ before' = [call |-> call, exp |-> exp]
    /\ phase' = "kept"
    /\ call' = NoCall
    /\ exp' = NoExport
    /\ keytext' = NULL
    /\ UNCHANGED <<det, dec, req, res, drawn>>
    /\ UNCHANGED <<handle, heap, forwards, op>>

\* the caller drops what it kept
Drop ==
    /\ phase \in {"export", "kept"}
    /\ phase' = "idle"
    /\ before' = NoBefore
    /\ call' = NoCall
    /\ exp' = NoExport
    /\ keytext' = NULL
    /\ UNCHANGED <<det, dec, req, res, drawn>>
    /\ UNCHANGED <<handle, heap, forwards, op>>

NextSalt == ExportFresh \/ Keep \/ Drop

SpecSalt == Init /\ [][NextSalt]_vars

----------------------------------------------------------------------------
(* Connections: the handle, its session, its shell channel, forward channels. *)
(* libssh is modelled by what the wrapper needs of it: which objects exist,   *)
(* which have been released, and which calls were made on released memory.    *)

\* how many sessions and channels one run allocates at most
MaxObjects == 3

\* the variables of the key functions, which no connection call touches
KeyVars == <<phase, call, exp, keytext, det, dec, req, res, drawn, before>>

\* a session or channel as libssh knows it: `connected` tells that ssh_connect
\* succeeded on the session, `frees` counts the ssh_free or
\* ssh_channel_free calls made on it, `gone` tells that its memory has been released,
\* `stale` that a call was made on it after that
NewObject(kind, session) ==
    [kind |-> kind, session |-> session, frees |-> 0, gone |-> FALSE, stale |-> FALSE,
     blocking |-> TRUE, connected |-> FALSE]

\* any libssh call that reads the object
Touch(objects, id) ==
    [objects EXCEPT ![id].stale = @ \/ objects[id].gone]

\* ssh_new
ssh_new(objects) == Append(objects, NewObject("session", 0))

\* ssh_connect succeeding
ssh_connect(objects, session) == [Touch(objects, session) EXCEPT ![session].connected = TRUE]

\* ssh_channel_new: the channel is attached to its session
ssh_channel_new(objects, session, kind) ==
    Append(Touch(objects, session), NewObject(kind, session))

\* ssh_channel_free
ssh_channel_free(objects, channel) ==
    [Touch(objects, channel) EXCEPT ![channel].frees = @ + 1, ![channel].gone = TRUE]

\* ssh_free: libssh releases the session and every channel still attached to it
ssh_free(objects, session) ==
    [i \in DOMAIN objects |->
        IF i = session
        THEN [Touch(objects, session)[i] EXCEPT !.frees = @ + 1, !.gone = TRUE]
        ELSE IF objects[i].session = session
        THEN [objects[i] EXCEPT !.gone = TRUE]
        ELSE objects[i]]

\* the handle as the functions see it: handle->session, handle->channel, and the heap
World(h, objects) == [session |-> h.session, channel |-> h.channel, heap |-> objects]

\* a channel_close that forgets the channel without freeing it
prossh_libssh_channel_close_m(w) == [w EXCEPT !.channel = 0]

\* prossh_libssh_channel_close on a non-NULL handle
prossh_libssh_channel_close(w) ==
    IF w.channel = 0 THEN w
    ELSE [w EXCEPT !.heap = ssh_channel_free(Touch(@, w.channel), w.channel),
                   !.channel = 0]

\* a disconnect that forgets the session without freeing it
prossh_libssh_disconnect_m(w) ==
    [prossh_libssh_channel_close(w) EXCEPT !.session = 0]

\* prossh_libssh_disconnect on a non-NULL handle
prossh_libssh_disconnect(w) ==
    LET closed == prossh_libssh_channel_close(w)
    IN  IF closed.session = 0 THEN closed
        ELSE [closed EXCEPT !.heap = ssh_free(Touch(@, closed.session), closed.session),
                            !.session = 0]

ConnectOutcomes == {"parameters", "ssh_new", "options", "ssh_connect", "connected"}

\* prossh_libssh_connect on a non-NULL handle: outcome names the first step that
\* fails, "connected" when none does; [w, rc]
prossh_libssh_connect(w, outcome) ==
    LET Allocated(d) ==
            [w |-> [d EXCEPT !.heap = IF outcome = "connected"
                                      THEN ssh_connect(ssh_new(@), Len(d.heap) + 1)
                                      ELSE ssh_new(@),
                             !.session = Len(d.heap) + 1],
             rc |-> CASE outcome = "options" -> -1
                      [] outcome = "ssh_connect" -> -2
                      [] OTHER -> 0]
        Disconnected(d) ==
            IF outcome = "ssh_new" THEN [w |-> d, rc |-> -1] ELSE Allocated(d)
    IN  IF outcome = "parameters" THEN [w |-> w, rc |-> -1]
        ELSE Disconnected(prossh_libssh_disconnect(w))

\* fingerprints as ssh_get_hexa prints them, shortened
FingerprintA == <<97, 97, 58, 48, 49>>
FingerprintB == <<98, 98, 58, 48, 50>>

\* a jump host and the way to the target: whether the jump host answers, whether its
\* key and the hash of the key can be had, its fingerprint, whether it accepts the
\* credentials, whether the target answers behind it
JumpHost(reachable, server_key, hash, fingerprint, auth, target) ==
    [reachable |-> reachable, server_key |-> server_key, hash |-> hash,
     fingerprint |-> fingerprint, auth |-> auth, target |-> target]

JumpHosts ==
    {JumpHost(TRUE, TRUE, TRUE, FingerprintA, TRUE, TRUE),
     JumpHost(TRUE, TRUE, TRUE, FingerprintA, TRUE, FALSE),
     JumpHost(TRUE, TRUE, TRUE, FingerprintA, FALSE, TRUE),
     JumpHost(TRUE, TRUE, TRUE, FingerprintB, TRUE, TRUE),
     JumpHost(TRUE, TRUE, FALSE, FingerprintB, TRUE, TRUE),
     JumpHost(TRUE, FALSE, FALSE, FingerprintB, TRUE, TRUE),
     JumpHost(FALSE, TRUE, TRUE, FingerprintA, TRUE, TRUE)}

ExpectedFingerprints == {NULL, <<>>, FingerprintA, ShortUnknown}

\* what a ProSSHJumpHostConfig may hold of an earlier attempt
StaleResults == {[verify_result |-> 0, auth_result |-> 0],
                 [verify_result |-> -2, auth_result |-> -1],
                 [verify_result |-> -3, auth_result |-> 0]}

\* prossh_get_session_fingerprint: [rc, fingerprint_buffer]
prossh_get_session_fingerprint(host) ==
    IF ~host.server_key THEN [rc |-> -1, fingerprint_buffer |-> ShortUnknown]
    ELSE [rc |-> 0,
          fingerprint_buffer |-> IF host.hash THEN host.fingerprint ELSE ShortUnknown]

\* prossh_jump_verify_knownhost: [rc, verify_result, actual_fingerprint]
prossh_jump_verify_knownhost(expected_fingerprint, host) ==
    LET got == prossh_get_session_fingerprint(host)
        R(rc, verify_result) ==
            [rc |-> rc, verify_result |-> verify_result,
             actual_fingerprint |-> got.fingerprint_buffer]
    IN  IF got.rc # 0 THEN R(-1, got.rc)
        ELSE IF expected_fingerprint = NULL \/ expected_fingerprint = <<>> THEN R(-1, -2)
        ELSE IF got.fingerprint_buffer # expected_fingerprint THEN R(-1, -3)
        ELSE R(0, 0)

\* prossh_jump_authenticate: [rc, auth_result]
prossh_jump_authenticate(host) ==
    IF host.auth THEN [rc |-> 0, auth_result |-> 0] ELSE [rc |-> -1, auth_result |-> -1]

\* ssh_connect through a jump host: libssh reaches the jump host, calls the verify
\* callback, then the authenticate callback, and goes on to the target only when both
\* returned 0; [ok, verify_result, auth_result, verified, passed]
JumpConnect(config, expected_fingerprint, host) ==
    LET v == prossh_jump_verify_knownhost(expected_fingerprint, host)
        a == prossh_jump_authenticate(host)
        R(ok, verify_result, auth_result, verified, passed) ==
            [ok |-> ok, verify_result |-> verify_result, auth_result |-> auth_result,
             verified |-> verified, passed |-> passed]
    IN  IF ~host.reachable
        THEN R(FALSE, config.verify_result, config.auth_result, FALSE, FALSE)
        ELSE IF v.rc # 0
        THEN R(FALSE, v.verify_result, config.auth_result, FALSE, FALSE)
        ELSE IF a.rc # 0 THEN R(FALSE, v.verify_result, a.auth_result, TRUE, TRUE)
        ELSE R(host.target, v.verify_result, a.auth_result, TRUE, TRUE)

JumpOutcomes ==
    {"parameters", "jump_parameters", "ssh_new", "options", "proxyjump", "callbacks",
     "ssh_connect"}

\* a connect_with_jump that keeps what the config held of an earlier attempt
ResetResults_m(stale) == stale

\* lines 1749-1750: verify_result and auth_result before the attempt
ResetResults(stale) == [verify_result |-> 0, auth_result |-> 0]

\* prossh_libssh_connect_with_jump on a non-NULL handle: outcome names the first step
\* that fails, "ssh_connect" when ssh_connect is reached; [w, rc, jump]
prossh_libssh_connect_with_jump(w, outcome, stale, expected_fingerprint, host) ==
    LET NotTried == [ok |-> FALSE, verify_result |-> stale.verify_result,
                     auth_result |-> stale.auth_result, verified |-> FALSE,
                     passed |-> FALSE]
        \* lines 1764-1784: j is what ssh_connect and the callbacks did
        Connected(n, j) ==
            [w |-> IF j.ok THEN [n EXCEPT !.heap = ssh_connect(@, n.session)] ELSE n,
             jump |-> j,
             rc |-> IF j.ok THEN 0
                    ELSE IF j.verify_result = -2 THEN -10
                    ELSE IF j.verify_result = -3 THEN -11
                    ELSE IF j.auth_result # 0 THEN -12
                    ELSE -2]
        Allocated(n) ==
            IF outcome \in {"options", "proxyjump"}
            THEN [w |-> n, rc |-> -1, jump |-> NotTried]
            ELSE IF outcome = "callbacks"
            THEN [w |-> n, rc |-> -1,
                  jump |-> [NotTried EXCEPT
                               !.verify_result = ResetResults(stale).verify_result,
                               !.auth_result = ResetResults(stale).auth_result]]
            ELSE Connected(n, JumpConnect(ResetResults(stale), expected_fingerprint, host))
        Disconnected(d) ==
            IF outcome = "ssh_new" THEN [w |-> d, rc |-> -1, jump |-> NotTried]
            ELSE Allocated([d EXCEPT !.heap = ssh_new(@), !.session = Len(d.heap) + 1])
    IN  IF outcome \in {"parameters", "jump_parameters"}
        THEN [w |-> w, rc |-> -1, jump |-> NotTried]
        ELSE Disconnected(prossh_libssh_disconnect(w))

\* a destroy that leaves the handle allocated
prossh_libssh_destroy_m(w) == [w |-> prossh_libssh_disconnect(w), handle_frees |-> 0]

\* prossh_libssh_destroy on a non-NULL handle: disconnect, then free(handle)
prossh_libssh_destroy(w) == [w |-> prossh_libssh_disconnect(w), handle_frees |-> 1]

\* the replies ssh_userauth_kbdint can give
AuthReplies ==
    {"SSH_AUTH_SUCCESS", "SSH_AUTH_DENIED", "SSH_AUTH_PARTIAL", "SSH_AUTH_INFO",
     "SSH_AUTH_ERROR"}

MaxPrompts == 2

\* lines 234, 240 and 243-248 of prossh_authenticate: the state after a reply of
\* ssh_userauth_kbdint; answers are the answers set since the previous reply
KbdintReplied(reply, answers) ==
    [name |-> "authenticate", auth_result |-> reply, answers |-> answers,
     pc |-> IF reply = "SSH_AUTH_INFO" THEN "info" ELSE "returned",
     rc |-> IF reply = "SSH_AUTH_SUCCESS" THEN 0 ELSE -1]

\* lines 236-239: every prompt of the round is answered with ""
KbdintAnswers(prompts) == [i \in 1..prompts |-> <<>>]

\* the stages of prossh_libssh_copy_public_key_to_host, in the order of the code
CopyStages ==
    <<"connect", "password", "install", "disconnect", "reconnect", "import", "publickey">>

\* the return code whose step fails in a call, 0 when none does
CopyFailures == 0..11

\* prossh_libssh_copy_public_key_to_host: failing names the step that fails by the
\* code it returns, outcome how a failing connect fails;
\* [rc, stages, created, handle_frees, heap, session]
prossh_libssh_copy_public_key_to_host(objects, failing, outcome) ==
    LET Start == [w |-> [session |-> 0, channel |-> 0, heap |-> objects],
                  stages |-> <<>>, handle_frees |-> 0, created |-> TRUE]
        Ran(t, stage) == [t EXCEPT !.stages = Append(@, stage)]
        Returned(t, rc) ==
            [rc |-> rc, stages |-> t.stages, created |-> t.created,
             handle_frees |-> t.handle_frees, heap |-> t.w.heap, session |-> t.w.session]
        Destroyed(t) ==
            [t EXCEPT !.w = prossh_libssh_destroy(t.w).w,
                      !.handle_frees = @ + prossh_libssh_destroy(t.w).handle_frees]
        ConnectedAs(t, fails) ==
            [t EXCEPT !.w = prossh_libssh_connect(t.w,
                                IF fails THEN outcome ELSE "connected").w]
        \* lines 3131-3144: ssh_userauth_publickey
        Verified(t) ==
            IF failing = 11 THEN Returned(Destroyed(t), -11) ELSE Returned(Destroyed(t), 0)
        \* lines 3108-3129: ssh_pki_import_privkey_base64
        Imported(t) ==
            IF failing = 10 THEN Returned(Destroyed(t), -10) ELSE Verified(Ran(t, "publickey"))
        \* lines 3089-3106: disconnect and the second connect
        Reconnected(t) ==
            IF failing = 9 THEN Returned(Destroyed(t), -9) ELSE Imported(Ran(t, "import"))
        Disconnected(t) == Reconnected(Ran(ConnectedAs(t, failing = 9), "reconnect"))
        \* lines 3071-3087: prossh_execute_remote_command
        Installed(t) ==
            IF failing = 8 THEN Returned(Destroyed(t), -8)
            ELSE Disconnected(Ran([t EXCEPT !.w = prossh_libssh_disconnect(@)],
                                  "disconnect"))
        \* lines 3039-3069: the command is quoted, sized and allocated
        Authenticated(t) ==
            IF failing \in 5..7 THEN Returned(Destroyed(t), -failing)
            ELSE Installed(Ran(t, "install"))
        \* lines 3006-3037: the first connect and the password
        Connected(t) ==
            IF failing = 3 THEN Returned(Destroyed(t), -3)
            ELSE IF failing = 4 THEN Returned(Destroyed(Ran(t, "password")), -4)
            ELSE Authenticated(Ran(t, "password"))
    IN  IF failing = 1 THEN Returned([Start EXCEPT !.created = FALSE], -1)
        ELSE IF failing = 2 THEN Returned([Start EXCEPT !.created = FALSE], -2)
        ELSE Connected(Ran(ConnectedAs(Start, failing = 3), "connect"))

\* what the server and the allocator do during one open_shell call: every step
\* succeeds, or one step fails, or the first PTY request fails and a later step too
ShellReply(channel_new, open_session, auth_agent, pty_size_modes, pty_size, shell) ==
    [channel_new |-> channel_new, open_session |-> open_session,
     auth_agent |-> auth_agent, pty_size_modes |-> pty_size_modes,
     pty_size |-> pty_size, shell |-> shell]

ShellReplies ==
    {ShellReply(TRUE, TRUE, TRUE, TRUE, TRUE, TRUE),
     ShellReply(FALSE, TRUE, TRUE, TRUE, TRUE, TRUE),
     ShellReply(TRUE, FALSE, TRUE, TRUE, TRUE, TRUE),
     ShellReply(TRUE, TRUE, FALSE, TRUE, TRUE, TRUE),
     ShellReply(TRUE, TRUE, TRUE, FALSE, TRUE, TRUE),
     ShellReply(TRUE, TRUE, TRUE, TRUE, FALSE, TRUE),
     ShellReply(TRUE, TRUE, TRUE, FALSE, FALSE, TRUE),
     ShellReply(TRUE, TRUE, TRUE, FALSE, TRUE, FALSE),
     ShellReply(TRUE, TRUE, TRUE, TRUE, TRUE, FALSE)}

\* an open_shell that keeps the channel when the shell request fails
prossh_libssh_open_shell_m(w, enable_agent_forwarding, reply) ==
    LET closed == prossh_libssh_channel_close(w)
        made == [closed EXCEPT !.heap = ssh_channel_new(@, closed.session, "shell"),
                               !.channel = Len(closed.heap) + 1]
    IN  IF w.session = 0 THEN [w |-> w, rc |-> -1]
        ELSE IF ~reply.channel_new THEN [w |-> closed, rc |-> -1]
        ELSE IF ~reply.open_session THEN [w |-> prossh_libssh_channel_close(made), rc |-> -2]
        ELSE IF enable_agent_forwarding /\ ~reply.auth_agent
        THEN [w |-> prossh_libssh_channel_close(made), rc |-> -5]
        ELSE IF ~reply.pty_size_modes /\ ~reply.pty_size
        THEN [w |-> prossh_libssh_channel_close(made), rc |-> -3]
        ELSE IF ~reply.shell THEN [w |-> made, rc |-> -4]
        ELSE [w |-> [made EXCEPT !.heap[made.channel].blocking = FALSE], rc |-> 0]

\* prossh_libssh_open_shell on a non-NULL handle; [w, rc]
prossh_libssh_open_shell(w, enable_agent_forwarding, reply) ==
    LET Failed(made, rc) == [w |-> prossh_libssh_channel_close(made), rc |-> rc]
        \* lines 1933-1958: the PTY request, its fallback, the shell request
        Requested(made) ==
            IF ~reply.pty_size_modes /\ ~reply.pty_size THEN Failed(made, -3)
            ELSE IF ~reply.shell THEN Failed(made, -4)
            ELSE [w |-> [made EXCEPT !.heap = [Touch(@, made.channel) EXCEPT
                                                  ![made.channel].blocking = FALSE]],
                  rc |-> 0]
        \* lines 1889-1900: the session channel is opened, agent forwarding asked for
        Made(made) ==
            IF ~reply.open_session THEN Failed(made, -2)
            ELSE IF enable_agent_forwarding /\ ~reply.auth_agent THEN Failed(made, -5)
            ELSE Requested([made EXCEPT !.heap = Touch(@, made.channel)])
        \* lines 1881-1887: the old channel is closed, a new one is asked for
        Closed(closed) ==
            IF ~reply.channel_new THEN [w |-> closed, rc |-> -1]
            ELSE Made([closed EXCEPT !.heap = ssh_channel_new(@, closed.session, "shell"),
                                     !.channel = Len(closed.heap) + 1])
    IN  IF w.session = 0 THEN [w |-> w, rc |-> -1]
        ELSE Closed(prossh_libssh_channel_close(w))

ForwardReplies == {"ssh_channel_new", "open_forward", "calloc", "opened"}

\* prossh_forward_channel_open on a non-NULL handle: [heap, channel], channel 0 when
\* the function returns NULL
prossh_forward_channel_open(w, reply) ==
    LET made == ssh_channel_new(w.heap, w.session, "forward")
        channel == Len(w.heap) + 1
    IN  IF w.session = 0 \/ reply = "ssh_channel_new" THEN [heap |-> w.heap, channel |-> 0]
        ELSE IF reply = "open_forward"
        THEN [heap |-> ssh_channel_free(Touch(made, channel), channel), channel |-> 0]
        ELSE IF reply = "calloc"
        THEN [heap |-> ssh_channel_free(Touch(Touch(made, channel), channel), channel),
              channel |-> 0]
        ELSE [heap |-> [Touch(Touch(made, channel), channel) EXCEPT
                           ![channel].blocking = FALSE],
              channel |-> channel]

\* prossh_forward_channel_read, _write and _is_open on a struct the caller holds: the
\* libssh calls on fwd->channel
ForwardUse(objects, channel) == Touch(objects, channel)

\* prossh_forward_channel_close on a struct the caller holds
prossh_forward_channel_close(objects, channel) ==
    ssh_channel_free(Touch(Touch(objects, channel), channel), channel)

\* ssh_connect has succeeded on the session of the handle
IsConnected == handle.session # 0 /\ heap[handle.session].connected

\* no connection call is running
Quiet == IF op.name = "authenticate" THEN op.pc = "returned" ELSE TRUE

\* room for the objects a call may allocate
Room(n) == Len(heap) + n <= MaxObjects

\* prossh_libssh_create: calloc gives a zeroed handle or NULL
Create ==
    /\ Quiet
    /\ handle.state \in {"none", "destroyed"}
    /\ \E allocated \in BOOLEAN :
          /\ handle' = [state |-> IF allocated THEN "live" ELSE "none",
                        session |-> 0, channel |-> 0]
          /\ op' = [name |-> "create", rc |-> IF allocated THEN 0 ELSE -1]
    /\ UNCHANGED <<heap, forwards>>
    /\ UNCHANGED KeyVars

\* prossh_libssh_connect
Connect ==
    /\ Quiet
    /\ handle.state \in {"none", "live"}
    /\ Room(1)
    /\ \E outcome \in ConnectOutcomes :
          IF handle.state = "none"
          THEN /\ op' = [name |-> "connect", rc |-> -1, outcome |-> "parameters"]
               /\ UNCHANGED <<handle, heap>>
          ELSE \E r \in {prossh_libssh_connect(World(handle, heap), outcome)} :
                   /\ handle' = [handle EXCEPT !.session = r.w.session,
                                               !.channel = r.w.channel]
                   /\ heap' = r.w.heap
                   /\ op' = [name |-> "connect", rc |-> r.rc, outcome |-> outcome]
    /\ UNCHANGED forwards
    /\ UNCHANGED KeyVars

\* prossh_libssh_connect_with_jump; the jump host and the config matter only to a
\* call that reaches ssh_connect
ConnectWithJump ==
    /\ Quiet
    /\ handle.state \in {"none", "live"}
    /\ Room(1)
    /\ \E outcome \in JumpOutcomes :
          \E stale \in IF outcome = "ssh_connect" THEN StaleResults
                       ELSE {[verify_result |-> 0, auth_result |-> 0]},
             expected_fingerprint \in IF outcome = "ssh_connect" THEN ExpectedFingerprints
                                      ELSE {NULL},
             host \in IF outcome = "ssh_connect" THEN JumpHosts
                      ELSE {JumpHost(FALSE, TRUE, TRUE, FingerprintA, TRUE, TRUE)} :
          IF handle.state = "none"
          THEN /\ op' = [name |-> "connect_with_jump", rc |-> -1,
                         outcome |-> "parameters"]
               /\ UNCHANGED <<handle, heap>>
          ELSE \E r \in {prossh_libssh_connect_with_jump(World(handle, heap), outcome,
                             stale, expected_fingerprint, host)} :
                   /\ handle' = [handle EXCEPT !.session = r.w.session,
                                               !.channel = r.w.channel]
                   /\ heap' = r.w.heap
                   /\ op' = IF outcome = "ssh_connect"
                            THEN [name |-> "connect_with_jump", rc |-> r.rc,
                                  outcome |-> outcome, jump |-> r.jump,
                                  expected_fingerprint |-> expected_fingerprint,
                                  host |-> host]
                            ELSE [name |-> "connect_with_jump", rc |-> r.rc,
                                  outcome |-> outcome]
    /\ UNCHANGED forwards
    /\ UNCHANGED KeyVars

\* prossh_libssh_channel_close
ChannelClose ==
    /\ Quiet
    /\ handle.state \in {"none", "live"}
    /\ \E w \in {IF handle.state = "none" THEN World(handle, heap)
                 ELSE prossh_libssh_channel_close(World(handle, heap))} :
          /\ handle' = [handle EXCEPT !.channel = w.channel]
          /\ heap' = w.heap
    /\ op' = [name |-> "channel_close", rc |-> 0]
    /\ UNCHANGED forwards
    /\ UNCHANGED KeyVars

\* prossh_libssh_disconnect
Disconnect ==
    /\ Quiet
    /\ handle.state \in {"none", "live"}
    /\ \E w \in {IF handle.state = "none" THEN World(handle, heap)
                 ELSE prossh_libssh_disconnect(World(handle, heap))} :
          /\ handle' = [handle EXCEPT !.session = w.session, !.channel = w.channel]
          /\ heap' = w.heap
    /\ op' = [name |-> "disconnect", rc |-> 0]
    /\ UNCHANGED forwards
    /\ UNCHANGED KeyVars

\* prossh_libssh_destroy: disconnect, then free(handle)
Destroy ==
    /\ Quiet
    /\ handle.state = "live"
    /\ \E r \in {prossh_libssh_destroy(World(handle, heap))} :
          /\ handle' = [state |-> IF r.handle_frees = 0 THEN "live" ELSE "destroyed",
                        session |-> r.w.session, channel |-> r.w.channel]
          /\ heap' = r.w.heap
    /\ op' = [name |-> "destroy", rc |-> 0]
    /\ UNCHANGED forwards
    /\ UNCHANGED KeyVars

\* prossh_libssh_open_shell
OpenShell ==
    /\ Quiet
    /\ handle.state \in {"none", "live"}
    /\ Room(1)
    /\ \E enable_agent_forwarding \in BOOLEAN,
          reply \in {y \in ShellReplies : y.open_session => IsConnected} :
          \E r \in {prossh_libssh_open_shell(World(handle, heap), enable_agent_forwarding,
                                             reply)} :
              /\ handle' = [handle EXCEPT !.channel = r.w.channel]
              /\ heap' = r.w.heap
              /\ op' = [name |-> "open_shell", rc |-> r.rc,
                        enable_agent_forwarding |-> enable_agent_forwarding,
                        reply |-> reply, had_session |-> handle.session # 0,
                        first |-> Len(heap) + 1]
    /\ UNCHANGED forwards
    /\ UNCHANGED KeyVars

\* the session a channel was made on has been released
SessionGone(objects, channel) == objects[objects[channel].session].gone

\* prossh_forward_channel_open
ForwardOpen ==
    /\ Quiet
    /\ handle.state \in {"none", "live"}
    /\ Room(1)
    /\ \E reply \in {y \in ForwardReplies :
                          y \in {"calloc", "opened"} => IsConnected} :
          \E r \in {prossh_forward_channel_open(World(handle, heap), reply)} :
              /\ heap' = r.heap
              /\ forwards' = IF r.channel = 0 THEN forwards ELSE forwards \cup {r.channel}
              /\ op' = [name |-> "forward_open", rc |-> IF r.channel = 0 THEN -1 ELSE 0,
                        channel |-> r.channel, session_gone |-> FALSE]
    /\ UNCHANGED handle
    /\ UNCHANGED KeyVars

\* prossh_forward_channel_read, _write and _is_open
ForwardTransfer ==
    /\ Quiet
    /\ \E channel \in forwards, name \in {"forward_read", "forward_write", "forward_is_open"} :
          /\ heap' = ForwardUse(heap, channel)
          /\ op' = [name |-> name, rc |-> 0, channel |-> channel,
                    session_gone |-> SessionGone(heap, channel)]
    /\ UNCHANGED <<handle, forwards>>
    /\ UNCHANGED KeyVars

\* prossh_forward_channel_close
ForwardClose ==
    /\ Quiet
    /\ \E channel \in forwards :
          /\ heap' = prossh_forward_channel_close(heap, channel)
          /\ forwards' = forwards \ {channel}
          /\ op' = [name |-> "forward_close", rc |-> 0, channel |-> channel,
                    session_gone |-> SessionGone(heap, channel)]
    /\ UNCHANGED handle
    /\ UNCHANGED KeyVars

\* prossh_authenticate with PROSSH_AUTH_KEYBOARD_INTERACTIVE, up to the first reply
Authenticate ==
    /\ Quiet
    /\ handle.state = "live"
    /\ handle.session # 0
    /\ \E reply \in IF IsConnected THEN AuthReplies ELSE {"SSH_AUTH_ERROR"} :
          op' = KbdintReplied(reply, <<>>)
    /\ UNCHANGED <<handle, heap, forwards>>
    /\ UNCHANGED KeyVars

\* one round of the loop of prossh_authenticate: the prompts are answered and
\* ssh_userauth_kbdint is called again
AnswerRound ==
    /\ op.name = "authenticate"
    /\ op.pc = "info"
    /\ \E prompts \in 0..MaxPrompts, reply \in AuthReplies :
          op' = KbdintReplied(reply, KbdintAnswers(prompts))
    /\ UNCHANGED <<handle, heap, forwards>>
    /\ UNCHANGED KeyVars

\* prossh_libssh_copy_public_key_to_host, with a handle of its own
CopyPublicKey ==
    /\ Quiet
    /\ Room(2)
    /\ \E failing \in CopyFailures :
       \E outcome \in IF failing \in {3, 9}
                      THEN ConnectOutcomes \ {"parameters", "connected"}
                      ELSE {"ssh_connect"} :
          \E r \in {prossh_libssh_copy_public_key_to_host(heap, failing, outcome)} :
              /\ heap' = r.heap
              /\ op' = [name |-> "copy_public_key", rc |-> r.rc, stages |-> r.stages,
                        created |-> r.created, handle_frees |-> r.handle_frees,
                        session |-> r.session, failing |-> failing,
                        first |-> Len(heap) + 1]
    /\ UNCHANGED <<handle, forwards>>
    /\ UNCHANGED KeyVars

NextHandle ==
    \/ Create
    \/ Connect
    \/ ConnectWithJump
    \/ ChannelClose
    \/ Disconnect
    \/ Destroy
    \/ OpenShell
    \/ ForwardOpen
    \/ ForwardTransfer
    \/ ForwardClose
    \/ Authenticate
    \/ AnswerRound
    \/ CopyPublicKey

SpecHandle == Init /\ [][NextHandle]_vars

\* the loop of prossh_authenticate goes on whenever it can
SpecAuthenticate == Init /\ [][NextHandle]_vars /\ WF_vars(AnswerRound)

----------------------------------------------------------------------------
(* State predicates used by the claims *)

Encrypting(passphrase) == passphrase # NULL /\ passphrase # <<>>

ExportReturned == phase = "export"

ExportSucceeded == phase = "export" /\ exp.rc = 0

----------------------------------------------------------------------------
(* Claims *)

\* C1: in every call of the encoder the plaintext private section length captured
\* before encryption (clear_private_len) is an exact multiple of the selected
\* cipher's block size: 8 for none and chacha20-poly1305@openssh.com, 16 for aes256-ctr.
C1_PaddingInvariant ==
    (ExportReturned /\ (exp.rc = 0 \/ exp.rc <= -8)) =>
        LET block == IF exp.cipher.name = NameAes THEN 16 ELSE 8
        IN  /\ exp.cipher.name \in {NameNone, NameAes, NameChacha}
            /\ exp.cipher.block_size = block
            /\ exp.clear_private_len > 0
            /\ exp.clear_private_len % block = 0
            /\ (exp.rc = 0 => Len(exp.clear_private) = exp.clear_private_len)

\* an AES-256-CTR export whose private section needed padding bytes to reach a multiple of 16
C1_Witness ==
    /\ ExportSucceeded
    /\ exp.cipher.name = NameAes
    /\ exp.clear_private_len % 16 = 0
    /\ exp.clear_private_len >
           Len(PrivateSectionBody(call.private_key.priv, call.comment, call.checkint))
    /\ Len(PrivateSectionBody(call.private_key.priv, call.comment, call.checkint)) % 8 = 0

\* C6: every failure of the encoder is terminal and returns no partial output:
\* on a non-zero return *private_key_output is NULL, and it is non-NULL only
\* when the return value is 0.
C6_NoPartialOutput ==
    ExportReturned =>
        /\ (exp.rc # 0 => exp.output = NULL /\ keytext = NULL)
        /\ (exp.output # NULL => exp.rc = 0)
        /\ (exp.rc = 0 => exp.output # NULL)

\* the base64 step failed after the whole container had been assembled
C6_Witness ==
    /\ ExportReturned
    /\ exp.rc = -17
    /\ call.fail = 17
    /\ exp.output = NULL

\* C7: every sensitive buffer of the encoder (key material, plaintext private
\* section, exported private-key blob) is zeroized before its memory is released,
\* on the success return and on each error return after the buffer was filled.
C7_ZeroizedBeforeRelease ==
    ExportReturned =>
        \A f \in exp.freed :
            f.buf \in {"key_material", "private_section", "private_key_blob"}
                => AllZero(f.bytes)

\* C9: with an absent or empty passphrase the container is written with cipher
\* name "none", KDF name "none" and an empty KDF options blob, whatever cipher
\* was requested, and the private section bytes written are the plaintext.
C9_NoPassphraseNoCipher ==
    (ExportSucceeded /\ ~Encrypting(call.passphrase)) =>
        LET c == ContainerFields(exp.encoded)
        IN  /\ exp.cipher = PROSSH_OPENSSH_CIPHER_NONE
            /\ c.ciphername = NameNone
            /\ c.kdfname = KdfNone
            /\ c.kdfoptions = <<>>
            /\ c.private_bytes = exp.clear_private
            /\ c.private_len = Len(exp.clear_private)

\* an export with the empty passphrase "" while ChaCha20-Poly1305 was requested
C9_Witness ==
    /\ ExportSucceeded
    /\ call.passphrase = <<>>
    /\ call.requested_cipher = PROSSH_PRIVATE_KEY_CIPHER_CHACHA20_POLY1305
    /\ ContainerFields(exp.encoded).ciphername = NameNone

\* C10: with a non-empty passphrase the encoder selects ChaCha20-Poly1305 only
\* if that cipher was requested and AES-256-CTR for every other requested value;
\* the KDF name is "bcrypt" and the KDF options are a 16-byte salt followed by rounds = 16.
C10_CipherSelection ==
    (ExportSucceeded /\ Encrypting(call.passphrase)) =>
        LET c == ContainerFields(exp.encoded)
            want == IF call.requested_cipher = PROSSH_PRIVATE_KEY_CIPHER_CHACHA20_POLY1305
                    THEN PROSSH_OPENSSH_CIPHER_CHACHA20
                    ELSE PROSSH_OPENSSH_CIPHER_AES256CTR
        IN  /\ exp.cipher = want
            /\ c.ciphername = want.name
            /\ c.kdfname = KdfBcrypt
            /\ Len(call.salt) = 16
            /\ c.kdfoptions = <<0, 0, 0, 16>> \o call.salt \o <<0, 0, 0, 16>>

\* an encrypting export that was asked for cipher NONE, or for a value outside the enum
C10_Witness ==
    /\ ExportSucceeded
    /\ Encrypting(call.passphrase)
    /\ call.requested_cipher \in {PROSSH_PRIVATE_KEY_CIPHER_NONE, 3}
    /\ ContainerFields(exp.encoded).ciphername = NameAes

C2_WitnessPlain ==
    /\ phase = "detect"
    /\ call.corrupt = "none"
    /\ ~Encrypting(call.passphrase)
    /\ det.parse_rc = 0

\* C3: for OpenSSH-armored text whose decoded payload has an altered or absent magic,
\* a cipher-name length of zero or one that overruns the buffer, the detector reports
\* a MalformedContainer failure and never the silent result (None, not protected).
C3_MalformedRejected ==
    (phase = "detect" /\ call.corrupt # "none") =>
        ~(det.cipher = PROSSH_PRIVATE_KEY_CIPHER_NONE /\ ~det.is_passphrase_protected)

\* C4: for every key and every non-empty passphrase P, decoding the container the
\* encoder produced with P, with the same P, recovers a key whose public-key SHA-256
\* fingerprint equals the original key's, for AES-256-CTR and for ChaCha20-Poly1305.
C4_RoundTrip ==
    (phase = "decode" /\ call.corrupt = "none" /\ Encrypting(call.passphrase)
        /\ dec.passphrase = call.passphrase) =>
        /\ dec.key.ok
        /\ Fingerprint(dec.key.pub) = Fingerprint(call.private_key.pub)
        /\ dec.key.priv = call.private_key.priv

\* a ChaCha20-Poly1305 container of the encoder has been decoded with its passphrase
C4_Witness ==
    /\ phase = "decode"
    /\ call.corrupt = "none"
    /\ Encrypting(call.passphrase)
    /\ dec.passphrase = call.passphrase
    /\ exp.cipher.name = NameChacha
    /\ dec.key.ok

\* decoding with another passphrase, or with none, never yields a key
WrongPassphraseFails ==
    (phase = "decode" /\ call.corrupt = "none" /\ Encrypting(call.passphrase)
        /\ dec.passphrase # call.passphrase) => ~dec.key.ok

\* an unencrypted container decodes whatever passphrase is offered
PlainDecodes ==
    (phase = "decode" /\ call.corrupt = "none" /\ ~Encrypting(call.passphrase)) =>
        dec.key.ok /\ dec.key.priv = call.private_key.priv

----------------------------------------------------------------------------
(* Claims about the pipeline *)

\* the PassphraseRequired outcome: the messages of lines 2413 and 2695
PassphraseRequiredMessages ==
    {"This private key is encrypted. Provide a passphrase to import it.",
     "This private key is encrypted. Provide the current passphrase to convert it."}

\* the DecryptionFailed outcome: the messages of lines 2419 and 2701
DecryptionFailedMessages ==
    {"Failed to import private key. Verify the key format and passphrase.",
     "Failed to import private key for conversion. Verify the key format and passphrase."}

\* the UnsupportedCombination outcome: the messages of lines 2153, 2226 and 2672
UnsupportedCombinationMessages ==
    {"Passphrase encryption is currently supported for OpenSSH private key format only.",
     "Passphrase encryption is currently unsupported for PKCS#8 export.",
     "Passphrase encryption is currently supported for OpenSSH output format only."}

\* import or convert tried to read an encrypted private key and the read failed
DecryptionFailedInCall ==
    /\ phase \in {"import", "convert"}
    /\ req.key_input \in EncryptedKeyTexts
    /\ "import_private" \in res.attempted
    /\ ~ssh_pki_import_privkey_base64(prossh_trimmed_copy(req.key_input),
            IF req.passphrase = <<>> THEN NULL ELSE req.passphrase).ok

C5_WitnessWrongPassphrase ==
    /\ phase = "convert"
    /\ req.key_input = TextPemEncrypted
    /\ req.passphrase = <<98>>
    /\ res.rc = -5
    /\ res.error \in DecryptionFailedMessages

\* generate or convert was called with a non-empty output passphrase and format PKCS8
PassphrasePkcs8Call ==
    /\ phase \in {"generate", "convert"}
    /\ HasPassphrase(req.output_passphrase)
    /\ req.format = PROSSH_PRIVATE_KEY_PKCS8

\* the steps the code runs before it looks at the output combination succeed:
\* generate maps the algorithm, allocates the context, sets the RSA size, generates
\* the key and derives the public key; convert trims the input and looks for a
\* private key marker
EarlierStepsPass ==
    IF phase = "generate"
    THEN req.algorithm \in PROSSH_KEY_RSA..PROSSH_KEY_DSA /\ req.fail \notin 2..5
    ELSE LET trimmed == prossh_trimmed_copy(req.key_input)
         IN  /\ trimmed # NULL
             /\ trimmed # <<>>
             /\ (strstr(trimmed, StrPrivateKeyDashes) # 0 \/ strstr(trimmed, StrBeginOpenssh) # 0)

\* C8 as stated: with a non-empty output passphrase and output format PKCS8, generate
\* and convert return failure with an UnsupportedCombination message before any
\* private-key export or PKCS8 conversion is attempted, and private_key_buffer is
\* left as the empty string.
C8_FailFast ==
    PassphrasePkcs8Call =>
        /\ res.rc # 0
        /\ res.error \in UnsupportedCombinationMessages
        /\ res.attempted \cap {"export_private", "pkcs8_convert"} = {}
        /\ res.private_key_buffer = <<>>

\* C8 amended: with a non-empty output passphrase and output format PKCS8, generate
\* and convert always fail, attempt no private-key export and no PKCS8 conversion and
\* leave private_key_buffer empty; the failure carries the UnsupportedCombination
\* message (generate returns -6, convert -3) whenever the steps that precede the
\* check succeed, and the message of the failing step otherwise.
C8_FailFastAfterValidation ==
    PassphrasePkcs8Call =>
        /\ res.rc # 0
        /\ res.attempted \cap {"export_private", "pkcs8_convert"} = {}
        /\ res.private_key_buffer = <<>>
        /\ IF EarlierStepsPass
           THEN /\ res.error \in UnsupportedCombinationMessages
                /\ res.rc = (IF phase = "generate" THEN -6 ELSE -3)
           ELSE /\ res.error \notin UnsupportedCombinationMessages
                /\ res.rc \in (IF phase = "generate" THEN -5..-1 ELSE {-2, -1})

\* an Ed25519 key was generated and the call then refused passphrase with PKCS8
C8_Witness ==
    /\ phase = "generate"
    /\ req.algorithm = PROSSH_KEY_ED25519
    /\ HasPassphrase(req.output_passphrase)
    /\ req.format = PROSSH_PRIVATE_KEY_PKCS8
    /\ res.rc = -6
    /\ res.error \in UnsupportedCombinationMessages
    /\ "generate_key" \in res.attempted

\* a conversion of a readable key was refused for passphrase with PKCS8
C8_WitnessConvert ==
    /\ phase = "convert"
    /\ req.key_input = TextPem
    /\ HasPassphrase(req.output_passphrase)
    /\ req.format = PROSSH_PRIVATE_KEY_PKCS8
    /\ res.rc = -3

----------------------------------------------------------------------------
(* Claims about the container layout, the armor and the detector *)

\* the bytes of a 32-bit value, most significant first
BigEndian32(v) == <<(v \div 16777216) % 256, (v \div 65536) % 256, (v \div 256) % 256, v % 256>>

\* a length-prefixed field
LengthPrefixed(bytes) == BigEndian32(Len(bytes)) \o bytes

\* "openssh-key-v1" and its NUL terminator
MagicWithNul == <<111,112,101,110,115,115,104,45,107,101,121,45,118,49,0>>

\* C11: every successfully encoded container has its fields in this fixed order
\* and no others: the 15-byte magic, the length-prefixed cipher name, KDF name and
\* KDF options, the key count 1, the length-prefixed public-key blob, the declared
\* private-section length, the private-section bytes; every 32-bit value big-endian.
C11_FieldOrder ==
    ExportSucceeded =>
        /\ exp.cipher.name \in {NameNone, NameAes, NameChacha}
        /\ exp.kdf_name \in {KdfNone, KdfBcrypt}
        /\ exp.encoded =
               MagicWithNul
                   \o LengthPrefixed(exp.cipher.name)
                   \o LengthPrefixed(exp.kdf_name)
                   \o LengthPrefixed(exp.kdf_options)
                   \o <<0, 0, 0, 1>>
                   \o LengthPrefixed(call.private_key.pub)
                   \o BigEndian32(exp.clear_private_len)
                   \o exp.encrypted_private

\* an AES-256-CTR container: bcrypt KDF with a 24-byte options blob, a non-empty
\* public-key blob and a private section
C11_Witness ==
    /\ ExportSucceeded
    /\ exp.cipher.name = NameAes
    /\ Len(exp.kdf_options) = 24
    /\ Len(call.private_key.pub) > 0
    /\ Len(exp.encrypted_private) > 0
    /\ SubSeq(exp.encoded, 1, 15) = MagicWithNul

\* the authentication-tag length of a cipher, by the name written in the container
TagLength(ciphername) == IF ciphername = NameChacha THEN 16 ELSE 0

\* C12: for every successful encode the 32-bit length written immediately before
\* the private section equals the padded plaintext private-section length, and the
\* private-section bytes written after it number that length plus the cipher's tag
\* length: 0 for none and AES-256-CTR, 16 for ChaCha20-Poly1305.
C12_DeclaredLength ==
    ExportSucceeded =>
        LET c == ContainerFields(exp.encoded)
        IN  /\ c.private_len = Len(exp.clear_private)
            /\ c.private_len % exp.cipher.block_size = 0
            /\ Len(c.private_bytes) = c.private_len + TagLength(c.ciphername)
            /\ c.ciphername \in {NameNone, NameAes} => Len(c.private_bytes) = Len(exp.clear_private)
            /\ c.private_bytes = exp.encrypted_private

\* a ChaCha20-Poly1305 container: 16 bytes follow the declared length
C12_Witness ==
    /\ ExportSucceeded
    /\ ContainerFields(exp.encoded).ciphername = NameChacha
    /\ Len(ContainerFields(exp.encoded).private_bytes)
           = ContainerFields(exp.encoded).private_len + 16

\* an AES-256-CTR container: the ciphertext is as long as the plaintext
C12_WitnessAes ==
    /\ ExportSucceeded
    /\ ContainerFields(exp.encoded).ciphername = NameAes
    /\ Len(ContainerFields(exp.encoded).private_bytes) = Len(exp.clear_private)

\* pattern occurs somewhere in text
Contains(text, pattern) ==
    \E i \in 1..(Len(text) - Len(pattern) + 1) : SubSeq(text, i, i + Len(pattern) - 1) = pattern

\* the format the text of a key announces
AnnouncedFormat(text) ==
    IF Contains(text, StrBeginOpenssh) THEN PROSSH_PRIVATE_KEY_OPENSSH
    ELSE IF Contains(text, StrBeginPrivate) \/ Contains(text, StrBeginEncrypted)
         THEN PROSSH_PRIVATE_KEY_PKCS8
    ELSE PROSSH_PRIVATE_KEY_PEM

\* C13: prossh_detect_private_key_format is a pure total function of the text: for
\* every non-NULL text it returns OpenSSH if the text contains "BEGIN OPENSSH PRIVATE
\* KEY", otherwise PKCS8 if it contains "BEGIN PRIVATE KEY" or "BEGIN ENCRYPTED
\* PRIVATE KEY", otherwise PEM; it never fails, and a second call on the same text
\* gives the same result.
C13_DetectFormat ==
    /\ (phase \in {"format", "format again"} /\ keytext # NULL) =>
           /\ res.detected_private_format = AnnouncedFormat(keytext)
           /\ res.detected_private_format \in
                  {PROSSH_PRIVATE_KEY_OPENSSH, PROSSH_PRIVATE_KEY_PEM, PROSSH_PRIVATE_KEY_PKCS8}
    /\ phase = "format again" => res.detected_private_format = req.format

\* a text with both the PKCS#8 and the OpenSSH marker, the PKCS#8 marker first:
\* the second call has returned OpenSSH again
C13_Witness ==
    /\ phase = "format again"
    /\ keytext = StrBeginPrivate \o <<NL>> \o StrBeginOpenssh
    /\ res.detected_private_format = PROSSH_PRIVATE_KEY_OPENSSH
    /\ req.format = PROSSH_PRIVATE_KEY_OPENSSH

\* a text without any marker is taken for PEM
C13_WitnessUnrecognized ==
    /\ phase = "format"
    /\ keytext = Hello \o <<NL>> \o Hello
    /\ res.detected_private_format = PROSSH_PRIVATE_KEY_PEM

\* the encrypted PKCS#8 marker alone
C13_WitnessEncrypted ==
    /\ phase = "format"
    /\ keytext = <<45, 45, 45, 45, 45>> \o StrBeginEncrypted \o <<NL>>
    /\ res.detected_private_format = PROSSH_PRIVATE_KEY_PKCS8

\* the detector has read the header of an OpenSSH container
HeaderParsed ==
    /\ phase = "cipher"
    /\ keytext # NULL
    /\ res.detected_private_format = PROSSH_PRIVATE_KEY_OPENSSH
    /\ det.parse_rc = 0

\* the cipher name the container in keytext declares
DeclaredCipher == StringAt(ArmorPayload(keytext, BeginMarker, EndMarker), Len(MagicWithNul) + 1)

\* the three names are mapped as the claim says
RecognizedNamesMapped ==
    /\ DeclaredCipher = NameNone =>
           det.cipher = PROSSH_PRIVATE_KEY_CIPHER_NONE /\ ~det.is_passphrase_protected
    /\ DeclaredCipher = NameAes =>
           det.cipher = PROSSH_PRIVATE_KEY_CIPHER_AES256CTR /\ det.is_passphrase_protected
    /\ DeclaredCipher = NameChacha =>
           /\ det.cipher = PROSSH_PRIVATE_KEY_CIPHER_CHACHA20_POLY1305
           /\ det.is_passphrase_protected

C14_WitnessChacha ==
    /\ HeaderParsed
    /\ DeclaredCipher = NameChacha
    /\ det.cipher = PROSSH_PRIVATE_KEY_CIPHER_CHACHA20_POLY1305
    /\ det.is_passphrase_protected

\* the detector has read an unencrypted container of the encoder
C14_WitnessNone ==
    /\ HeaderParsed
    /\ DeclaredCipher = NameNone
    /\ ~det.is_passphrase_protected

----------------------------------------------------------------------------
(* Claims about the output buffers of generate, import and convert *)

\* the call of req and phase repeated with ample output buffers
WithAmpleBuffers ==
    CASE phase = "generate" ->
             prossh_libssh_generate_keypair(req.algorithm, req.parameter, req.format,
                 req.output_passphrase, req.cipher, req.comment,
                 AmpleLens.private, AmpleLens.public, req.seed, req.fail)
      [] phase = "import" ->
             prossh_libssh_import_key(req.key_input, req.passphrase, req.comment,
                 AmpleLens.private, AmpleLens.public, req.fail)
      [] phase = "convert" ->
             prossh_libssh_convert_private_key(req.key_input, req.passphrase, req.format,
                 req.output_passphrase, req.cipher, req.comment,
                 AmpleLens.private, AmpleLens.public, req.seed, req.fail)
      [] OTHER -> NoResult

\* C15: a generate, import or convert call whose output buffer is too small for the text
\* fails; a call that returns success has returned the private key text and the public
\* key line whole.
C15_BufferTooSmall ==
    (phase \in {"generate", "import", "convert"} /\ res.rc = 0) =>
        /\ res.private_key_buffer = WithAmpleBuffers.private_key_buffer
        /\ res.public_key_buffer = WithAmpleBuffers.public_key_buffer

----------------------------------------------------------------------------
(* Claims about the salt *)

\* the salt written in the KDF options of a container
SaltOfOptions(kdf_options) == StringAt(kdf_options, 1)

\* the call that just returned and the call before it both encrypted
TwoEncryptingCalls ==
    /\ phase = "export"
    /\ before # NoBefore
    /\ exp.rc = 0 /\ exp.encrypt
    /\ before.exp.rc = 0 /\ before.exp.encrypt

\* C16: two consecutive encrypting calls with the same passphrase and the same key
\* produce different salts and different ciphertext; the salt of a call is the 16 bytes
\* the random source delivered to that call.
C16_SaltUniqueness ==
    TwoEncryptingCalls =>
        /\ Len(call.salt) = 16 /\ Len(before.call.salt) = 16
        /\ SaltOfOptions(exp.kdf_options) = call.salt
        /\ SaltOfOptions(before.exp.kdf_options) = before.call.salt
        /\ (/\ call.passphrase = before.call.passphrase
            /\ call.private_key = before.call.private_key) =>
               /\ SaltOfOptions(exp.kdf_options) # SaltOfOptions(before.exp.kdf_options)
               /\ exp.encrypted_private # before.exp.encrypted_private
               /\ exp.encoded # before.exp.encoded

\* two consecutive AES256-CTR calls with the same passphrase and the same key
C16_Witness ==
    /\ TwoEncryptingCalls
    /\ call.passphrase = before.call.passphrase
    /\ call.private_key = before.call.private_key
    /\ call.requested_cipher = PROSSH_PRIVATE_KEY_CIPHER_AES256CTR
    /\ before.call.requested_cipher = PROSSH_PRIVATE_KEY_CIPHER_AES256CTR
    /\ call.salt # before.call.salt

----------------------------------------------------------------------------
(* Claims about the public-key path of import *)

\* the import call that just returned was given some text
ImportedText ==
    /\ phase = "import"
    /\ req.key_input # NULL
    /\ prossh_trimmed_copy(req.key_input) # <<>>

\* the call went the public-key way: it never tried to read a private key
TookPublicPath == ImportedText /\ "import_private" \notin res.attempted

\* the text starts like a public key line and carries no private-key marker
LooksLikePublicKey(text) ==
    /\ \E prefix \in {PrefixSsh, PrefixEcdsa, PrefixSk} :
          Len(text) >= Len(prefix) /\ SubSeq(text, 1, Len(prefix)) = prefix
    /\ ~Contains(text, StrPrivateKeyDashes)
    /\ ~Contains(text, StrBeginOpenssh)

\* the first, the second and the remaining tokens of a trimmed line
LineTokens(text) ==
    LET type_end == TokenEnd(text, 1)
        base64_start == SkipBlank(text, type_end)
        base64_end == TokenEnd(text, base64_start)
    IN  [type |-> SubSeq(text, 1, type_end - 1),
         base64 |-> SubSeq(text, base64_start, base64_end - 1),
         comment |-> SubSeq(text, SkipBlank(text, base64_end), Len(text))]

\* "type base64 comment": the comment argument without leading blanks when it has
\* any character, otherwise the comment of the line; no comment, no third token
NormalizedLine(tokens, comment) ==
    LET given == NormalizedComment(comment)
        chosen == IF given # <<>> THEN given ELSE tokens.comment
    IN  tokens.type \o <<32>> \o tokens.base64 \o
            (IF chosen = <<>> THEN <<>> ELSE <<32>> \o chosen)

\* C17: import takes the public-key path only when the trimmed input starts with "ssh-",
\* "ecdsa-" or "sk-" and contains no private-key marker; on that path an empty type or
\* base64 token or an unknown type name is rejected, and success returns the normalized
\* line "type base64 comment" with is_private_key = 0.
C17_PublicKeyPath ==
    TookPublicPath =>
        LET trimmed == prossh_trimmed_copy(req.key_input)
            tokens == LineTokens(trimmed)
        IN  /\ LooksLikePublicKey(trimmed)
            /\ (\/ tokens.type = <<>>
                \/ tokens.base64 = <<>>
                \/ tokens.type \notin {TypeRsa, TypeEd25519}) => res.rc # 0
            /\ res.rc = 0 =>
                   /\ res.public_key_buffer = NormalizedLine(tokens, req.comment)
                   /\ res.is_private_key = 0

\* a public key line with its own comment was imported and no comment was given
C17_Witness ==
    /\ TookPublicPath
    /\ req.key_input = TextPublic
    /\ req.comment = NULL
    /\ res.rc = 0
    /\ res.public_key_buffer = TextPublic
    /\ res.is_private_key = 0

\* a line of an unknown type was rejected on the public-key path
C17_WitnessUnknownType ==
    /\ TookPublicPath
    /\ req.key_input = TextPublicSk
    /\ res.rc = -8

\* a line without a base64 token was rejected on the public-key path
C17_WitnessNoBase64 ==
    /\ TookPublicPath
    /\ req.key_input = TypeRsa
    /\ res.rc = -7

\* a public key line carrying a private-key marker went the private-key way
C17_WitnessMarked ==
    /\ ImportedText
    /\ req.key_input = TextPublicMarked
    /\ ~TookPublicPath

\* the comment given replaced the comment of the line
C17_WitnessComment ==
    /\ TookPublicPath
    /\ req.key_input = TextPublicTabbed
    /\ req.comment = <<32, 99>>
    /\ res.rc = 0
    /\ res.public_key_buffer =
           TypeEd25519 \o <<32>> \o prossh_base64_encode(KeyEd25519.pub) \o <<32, 99>>

----------------------------------------------------------------------------
(* Claims about the armor *)

\* the lines of the text from position at on, each without the newline that ends it;
\* characters behind the last newline make a line of their own
RECURSIVE SplitLines(_, _)
SplitLines(text, at) ==
    LET breaks == {i \in at..Len(text) : text[i] = NL}
    IN  IF at > Len(text) THEN <<>>
        ELSE IF breaks = {} THEN <<SubSeq(text, at, Len(text))>>
        ELSE LET break == CHOOSE i \in breaks : \A j \in breaks : i <= j
             IN  <<SubSeq(text, at, break - 1)>> \o SplitLines(text, break + 1)

\* lines[from], ..., lines[to] put together
RECURSIVE JoinLines(_, _, _)
JoinLines(lines, from, to) ==
    IF from > to THEN <<>> ELSE lines[from] \o JoinLines(lines, from + 1, to)

\* C18: the armored output of a successful encode is the BEGIN line, the base64 body in
\* lines of exactly 70 characters except a last line of 1 to 70 characters, and the END
\* line, each line ended by one newline; the body lines put together are the base64
\* encoding of the assembled container.
C18_Armor ==
    ExportSucceeded =>
        LET lines == SplitLines(exp.output, 1)
            n == Len(lines)
        IN  /\ exp.output[Len(exp.output)] = NL
            /\ n >= 3
            /\ lines[1] = <<45,45,45,45,45,66,69,71,73,78,32,79,80,69,78,83,83,72,32,
                            80,82,73,86,65,84,69,32,75,69,89,45,45,45,45,45>>
            /\ lines[n] = <<45,45,45,45,45,69,78,68,32,79,80,69,78,83,83,72,32,
                            80,82,73,86,65,84,69,32,75,69,89,45,45,45,45,45>>
            /\ \A i \in 2..(n - 2) : Len(lines[i]) = 70
            /\ Len(lines[n - 1]) \in 1..70
            /\ JoinLines(lines, 2, n - 1) = prossh_base64_encode(exp.encoded)

\* an encode whose body has full lines and a shorter last line
C18_Witness ==
    /\ ExportSucceeded
    /\ Len(prossh_base64_encode(exp.encoded)) > 140
    /\ Len(prossh_base64_encode(exp.encoded)) % 70 # 0
    /\ Len(SplitLines(exp.output, 1)) >= 5

----------------------------------------------------------------------------
(* Claims about the plaintext private section *)

\* the section before padding: the checkint twice, the blob, the comment
UnpaddedSection ==
    BigEndian32(call.checkint) \o BigEndian32(call.checkint)
        \o LengthPrefixed(call.private_key.priv)
        \o LengthPrefixed(IF call.comment = NULL THEN <<>> ELSE call.comment)

\* the smallest k in 0..blockSize-1 that makes length + k a multiple of blockSize
PaddingCount(length, blockSize) ==
    CHOOSE k \in 0..(blockSize - 1) :
        /\ (length + k) % blockSize = 0
        /\ \A j \in 0..(k - 1) : (length + j) % blockSize # 0

\* C19: the plaintext private section is the random checkint written twice, the
\* length-prefixed private-key blob, the length-prefixed comment (zero length when the
\* comment is NULL or empty), then k padding bytes 1, 2, 3, ..., k being the smallest
\* number in 0..blockSize-1 that makes the length a multiple of the block size.
C19_PrivateSection ==
    ExportSucceeded =>
        LET blockSize == exp.cipher.block_size
            k == PaddingCount(Len(UnpaddedSection), blockSize)
        IN  /\ blockSize \in {8, 16}
            /\ exp.clear_private = UnpaddedSection \o [i \in 1..k |-> i]
            /\ Len(exp.clear_private) % blockSize = 0
            /\ (call.comment = NULL \/ call.comment = <<>>) =>
                   SubSeq(exp.clear_private, 13 + Len(call.private_key.priv),
                          16 + Len(call.private_key.priv)) = <<0, 0, 0, 0>>

\* an AES256-CTR encode with a comment whose section needed padding
C19_Witness ==
    /\ ExportSucceeded
    /\ exp.cipher.block_size = 16
    /\ call.comment # NULL /\ call.comment # <<>>
    /\ PaddingCount(Len(UnpaddedSection), 16) > 8
    /\ exp.clear_private[Len(exp.clear_private)] = PaddingCount(Len(UnpaddedSection), 16)

\* an encode without a comment whose section needed no padding
C19_WitnessNoPadding ==
    /\ ExportSucceeded
    /\ call.comment = NULL
    /\ exp.clear_private = UnpaddedSection

----------------------------------------------------------------------------
(* Claims about the output buffers after a failure *)

\* C20: whenever generate, import or convert returns failure, private_key_buffer and
\* public_key_buffer are both the empty string.
C20_NoPartialOutput ==
    (phase \in {"generate", "import", "convert"} /\ res.rc # 0) =>
        /\ res.private_key_buffer = <<>>
        /\ res.public_key_buffer = <<>>

----------------------------------------------------------------------------
(* Claims about the private-key text the pipeline holds on the heap *)

\* the heap copies of private-key text: the trimmed input, the exported text, the
\* PKCS#8 re-encoding
PrivateTextBuffers == {"trimmed", "private_key_output", "pkcs8_output"}

\* C21: in generate, import and convert every heap copy of private-key text is
\* zeroized before it is freed, on every return path.
C21_TextZeroizedBeforeFree ==
    phase \in {"generate", "import", "convert"} =>
        \A f \in res.freed : f.buf \in PrivateTextBuffers => AllZero(f.bytes)

----------------------------------------------------------------------------
(* Claims about what convert and import report of the key *)

\* a convert call returned success into buffers that hold the whole text
ConvertSucceeded == phase = "convert" /\ res.rc = 0 /\ req.lens = AmpleLens

\* what the detector says of the private key text convert produced
DetectedOutput ==
    prossh_detect_private_key_cipher(
        prossh_detect_private_key_format(res.private_key_buffer), res.private_key_buffer)

\* C22: after a successful convert the reported output_private_cipher is the cipher
\* written into the produced private key, as detectCipher reports it on
\* private_key_buffer, and output_is_passphrase_protected is 1 exactly when the output
\* passphrase is non-empty, for every requested cipher value.
C22_ReportedOutputCipher ==
    ConvertSucceeded =>
        /\ res.output_private_cipher = DetectedOutput.cipher
        /\ res.output_is_passphrase_protected = 1 <=> HasPassphrase(req.output_passphrase)

\* an import call read a private key and returned success
PrivateImportSucceeded ==
    /\ phase = "import"
    /\ res.rc = 0
    /\ res.is_private_key = 1

\* what the detector says of the trimmed input text
DetectedInput ==
    prossh_detect_private_key_cipher(
        prossh_detect_private_key_format(prossh_trimmed_copy(req.key_input)),
        prossh_trimmed_copy(req.key_input))

\* C23: after a successful private-key import the reported is_passphrase_protected is
\* the detector's passphraseRequired for the input text, whether or not the caller
\* supplied a passphrase.
C23_ReportedInputProtection ==
    PrivateImportSucceeded =>
        res.is_passphrase_protected = 1 <=> DetectedInput.is_passphrase_protected

\* the shell channels of the heap that have not been released
LiveShells == {c \in DOMAIN heap : heap[c].kind = "shell" /\ ~heap[c].gone}

\* C24: after any sequence of create, connect, connect_with_jump, open_shell,
\* channel_close, disconnect and their failures on one handle, channel is non-NULL only
\* if session is non-NULL, and at most one shell channel exists for the handle.
C24_HandleShape ==
    /\ handle.channel # 0 => handle.session # 0
    /\ Cardinality(LiveShells) <= 1
    /\ handle.channel # 0 => LiveShells = {handle.channel}

\* a second open_shell on a handle that had a shell channel: the old channel has been
\* freed and the new one is the only one
C24_Witness ==
    /\ op.name = "open_shell"
    /\ op.rc = 0
    /\ handle.channel # 0
    /\ \E c \in DOMAIN heap :
          heap[c].kind = "shell" /\ heap[c].gone /\ c < handle.channel
             /\ heap[c].session = handle.session

\* the sessions and shell channels allocated so far
Allocated == {o \in DOMAIN heap : heap[o].kind \in {"session", "shell"}}

\* C25: across any sequence of create, connect, connect_with_jump, channel_close,
\* disconnect and a final destroy on one handle, every session and every shell channel
\* the wrapper allocates is freed exactly once: nothing is ever freed twice, a connect
\* that fails after allocation leaves the session on the handle, and after destroy
\* everything allocated has been freed.
C25_FreedExactlyOnce ==
    /\ \A o \in Allocated : heap[o].frees <= 1 /\ ~heap[o].stale
    /\ \A o \in Allocated :
          heap[o].frees = 0 /\ heap[o].kind = "session" => handle.session = o
    /\ \A o \in Allocated :
          heap[o].frees = 0 /\ heap[o].kind = "shell" => handle.channel = o
    /\ (op.name \in {"connect", "connect_with_jump"}
           /\ op.outcome \in {"options", "proxyjump", "callbacks", "ssh_connect"}
           /\ op.rc # 0 /\ handle.state = "live")
          => handle.session # 0 /\ heap[handle.session].frees = 0
    /\ handle.state = "destroyed" => \A o \in Allocated : heap[o].frees = 1

\* a destroy after two connects, the first of which left its session on the handle,
\* and an open_shell
C25_Witness ==
    /\ op.name = "destroy"
    /\ handle.state = "destroyed"
    /\ Cardinality({o \in Allocated : heap[o].kind = "session"}) >= 2
    /\ \E o \in Allocated : heap[o].kind = "shell"

\* a connect that failed in ssh_connect: its session stays on the handle
C25_WitnessFailedConnect ==
    /\ op.name = "connect"
    /\ op.rc = -2
    /\ handle.session # 0
    /\ heap[handle.session].frees = 0
    /\ Cardinality({o \in Allocated : heap[o].kind = "session"}) >= 2

ForwardOperations == {"forward_read", "forward_write", "forward_is_open", "forward_close"}

\* C26: for any interleaving of forward-channel operations with operations on the
\* owning handle, no forward-channel operation (read, write, is_open, close) is applied
\* to a channel whose session has already been freed by disconnect, destroy or a
\* reconnect on that handle.
C26_NoUseAfterSessionFree ==
    op.name \in ForwardOperations => ~op.session_gone

\* the channels allocated by the open_shell call that has just returned
MadeByCall == {c \in DOMAIN heap : c >= op.first}

\* C27: on every failure return of prossh_libssh_open_shell the handle's channel is
\* NULL; the PTY step fails with -3 only when both the request with the mode blob and
\* the fallback request without modes fail; the channel is set non-blocking only on
\* the success return.
C27_OpenShellFailure ==
    op.name = "open_shell" =>
        /\ op.rc # 0 => handle.channel = 0
        /\ op.rc # 0 => \A c \in MadeByCall : heap[c].blocking /\ heap[c].frees = 1
        /\ op.rc = -3 => ~op.reply.pty_size_modes /\ ~op.reply.pty_size
        /\ (op.had_session /\ op.reply.channel_new /\ op.reply.open_session
               /\ (op.enable_agent_forwarding => op.reply.auth_agent)
               /\ ~op.reply.pty_size_modes /\ ~op.reply.pty_size) => op.rc = -3
        /\ op.rc = 0 => /\ handle.channel \in MadeByCall
                        /\ ~heap[handle.channel].blocking
                        /\ heap[handle.channel].frees = 0

\* both PTY requests failed: -3, and the channel the call made has been freed
C27_Witness ==
    /\ op.name = "open_shell"
    /\ op.rc = -3
    /\ handle.channel = 0
    /\ MadeByCall # {}

\* the request with the mode blob failed, the fallback succeeded, the shell started
C27_WitnessFallback ==
    /\ op.name = "open_shell"
    /\ op.rc = 0
    /\ ~op.reply.pty_size_modes
    /\ op.reply.pty_size

\* the shell request failed after a PTY was granted
C27_WitnessShellRefused ==
    /\ op.name = "open_shell"
    /\ op.rc = -4
    /\ handle.channel = 0
    /\ MadeByCall # {}

\* the number of stages a call runs when the step returning -failing fails
StagesRun(failing) ==
    CASE failing = 0 -> 7
      [] failing \in {1, 2} -> 0
      [] failing = 3 -> 1
      [] failing \in 4..7 -> 2
      [] failing = 8 -> 3
      [] failing = 9 -> 5
      [] failing = 10 -> 6
      [] failing = 11 -> 7

\* C28: prossh_libssh_copy_public_key_to_host runs its stages in the fixed order
\* connect, password authentication, remote install command, disconnect, reconnect,
\* private-key import, public-key authentication; it returns 0 only if every stage
\* succeeded, a stage never runs after an earlier stage failed, and the temporary
\* handle it created is destroyed exactly once on every return path after creation.
C28_CopyStages ==
    op.name = "copy_public_key" =>
        /\ Len(op.stages) <= Len(CopyStages)
        /\ \A i \in 1..Len(op.stages) : op.stages[i] = CopyStages[i]
        /\ op.rc = 0 <=> op.failing = 0
        /\ op.rc = 0 => op.stages = CopyStages
        /\ Len(op.stages) = StagesRun(op.failing)
        /\ op.rc # 0 => op.rc = -op.failing
        /\ op.created <=> op.failing \notin {1, 2}
        /\ op.handle_frees = IF op.created THEN 1 ELSE 0
        /\ op.session = 0
        /\ \A o \in DOMAIN heap : o >= op.first => heap[o].frees = 1 /\ ~heap[o].stale

\* the reconnect failed: both sessions of the call have been freed with the handle
C28_Witness ==
    /\ op.name = "copy_public_key"
    /\ op.rc = -9
    /\ op.handle_frees = 1
    /\ Len(heap) >= op.first + 1

\* every stage succeeded
C28_WitnessSuccess ==
    /\ op.name = "copy_public_key"
    /\ op.rc = 0
    /\ op.stages = CopyStages
    /\ op.handle_frees = 1

\* a connect_with_jump call that reached ssh_connect has returned
JumpAttempted == op.name = "connect_with_jump" /\ op.outcome = "ssh_connect"

\* the jump host's SHA-256 fingerprint is string-equal to a non-empty expected_fingerprint
FingerprintMatches(expected_fingerprint, host) ==
    /\ host.server_key
    /\ host.hash
    /\ expected_fingerprint # NULL
    /\ expected_fingerprint # <<>>
    /\ host.fingerprint = expected_fingerprint

\* C29: a jump-host connection never proceeds past host-key verification unless the
\* jump host's SHA-256 fingerprint is string-equal to a non-empty expected_fingerprint:
\* the verify callback returns 0 only in that case, and when ssh_connect fails the call
\* returns -10 for a missing expected fingerprint, -11 for a mismatch, -12 for a jump
\* authentication failure and -2 otherwise, with verify_result and auth_result reset
\* to 0 before each attempt.
C29_JumpVerification ==
    JumpAttempted =>
        LET missing == op.expected_fingerprint = NULL \/ op.expected_fingerprint = <<>>
            asked == op.host.reachable /\ op.host.server_key
        IN  /\ op.jump.verified => FingerprintMatches(op.expected_fingerprint, op.host)
            /\ op.jump.passed => FingerprintMatches(op.expected_fingerprint, op.host)
            /\ op.rc = 0 <=> op.jump.ok
            /\ op.rc = -10 <=> asked /\ missing
            /\ op.rc = -11 <=> asked /\ ~missing /\ ~op.jump.verified
            /\ op.rc = -12 <=> op.jump.verified /\ ~op.host.auth
            /\ op.rc \in {0, -2, -10, -11, -12}
            /\ ~op.host.reachable => op.jump.verify_result = 0 /\ op.jump.auth_result = 0
            /\ ~op.jump.verified => op.jump.auth_result = 0

\* a keyboard-interactive prossh_authenticate has returned as the claim describes
AuthenticateReturned ==
    /\ op.name = "authenticate"
    /\ op.pc = "returned"
    /\ op.rc = (IF op.auth_result = "SSH_AUTH_SUCCESS" THEN 0 ELSE -1)
    /\ \A i \in DOMAIN op.answers : op.answers[i] = <<>>

\* C30: keyboard-interactive authentication terminates: for every sequence of server
\* replies, prossh_authenticate with PROSSH_AUTH_KEYBOARD_INTERACTIVE eventually
\* returns, with 0 exactly when the final reply is SSH_AUTH_SUCCESS and -1 otherwise,
\* after answering every prompt of every SSH_AUTH_INFO round with the empty string.
C30_AuthenticateTerminates ==
    (op.name = "authenticate") ~> AuthenticateReturned

====
